---- MODULE Spec2Model ----
(***************************************************************************)
(* A model of prosemirror-model: marks and mark sets (mark.js), fragments  *)
(* (fragment.js), nodes and the structural replace (node.js, replace.js)   *)
(* and resolved positions (resolvedpos.js).                                *)
(*                                                                         *)
(* The library is a set of pure operations over immutable values, so each  *)
(* part of it is checked under a specification of its own that draws the   *)
(* inputs and applies the operations:                                      *)
(*   SpecMark   mark sets built from Mark.none by addToSet/removeFromSet   *)
(*   SpecFrag   fragments built by the operations of Fragment              *)
(*   Spec       resolve, slice and replace called on a document            *)
(*   SpecPos    marks, marksAcross and blockRange of resolved positions    *)
(*   SpecCache  Node.resolve, through the cache of resolved positions      *)
(* ContentMatch (content.js) is modelled for the two content expressions   *)
(* of the schema used here, block+ and inline*.                            *)
(***************************************************************************)
EXTENDS Integers, Sequences, FiniteSets, TLC

VARIABLES
  excluded,   \* schema: mark type name -> set of the mark type names it excludes
  markSet,    \* the mark set built so far
  prevSet,    \* the set the last mark operation was given
  lastMark,   \* the mark the last mark operation was called on
  lastOp,     \* the last operation applied
  curFrag,    \* the fragment built so far
  fragMerging, \* whether only merging operations have built curFrag
  curCut,     \* what the last cut of a cut did
  curDoc,     \* the document
  curArgs,    \* the arguments of the call in progress
  curResult,  \* what the call in progress returned or raised
  resolveCache,    \* the resolved positions that resolveCached keeps
  resolveCachePos, \* the place in resolveCache that the next miss fills
  cacheLog    \* how many keys were resolved, and how many calls missed

markVars == <<markSet, prevSet, lastMark>>
fragVars == <<curFrag, fragMerging, curCut>>
docVars == <<curDoc, curArgs, curResult>>
cacheVars == <<resolveCache, resolveCachePos, cacheLog>>
vars == <<excluded, lastOp, markVars, fragVars, docVars, cacheVars>>

(***************************************************************************)
(* Marks.  A mark is a type and an attribute map; the schema here knows    *)
(* three mark types, declared in this order, of which link has one         *)
(* attribute (href).  A mark type's rank is its place in that order.       *)
(***************************************************************************)
MarkNames == <<"em", "link", "code">>

MarkTypes == {MarkNames[i] : i \in 1..Len(MarkNames)}

\* The greatest href value a link takes (hrefs are 0..MaxHref).
MaxHref == 1

NoAttrs == 0

rank(type) == (CHOOSE i \in 1..Len(MarkNames) : MarkNames[i] = type) - 1

AttrsOf(type) == IF type = "link" THEN 0..MaxHref ELSE {NoAttrs}

Marks == {[type |-> t, attrs |-> a] : t \in MarkTypes, a \in 0..MaxHref} \cap
         UNION {{[type |-> t, attrs |-> a] : a \in AttrsOf(t)} : t \in MarkTypes}

\* Schema constructor: a mark type's excluded list is [type] when its spec
\* gives no excludes, [] for "", and the named types otherwise.
Schemas == [MarkTypes -> SUBSET MarkTypes]

DefaultExcluded == [t \in MarkTypes |-> {t}]

\* A variant of excludes that does not honour a type excluding itself.
excludesOthersOnly(type, other) == other \in excluded[type] /\ other # type

excludes(type, other) == other \in excluded[type]

MarkEq(a, b) == a.type = b.type /\ a.attrs = b.attrs

Mark_none == <<>>

RECURSIVE sameSetFrom(_, _, _)
sameSetFrom(a, b, i) ==
  IF i > Len(a) THEN TRUE
  ELSE IF ~MarkEq(a[i], b[i]) THEN FALSE
  ELSE sameSetFrom(a, b, i + 1)

sameSet(a, b) ==
  IF Len(a) # Len(b) THEN FALSE ELSE sameSetFrom(a, b, 1)

RECURSIVE isInSetFrom(_, _, _)
isInSetFrom(m, set, i) ==
  IF i > Len(set) THEN FALSE
  ELSE IF MarkEq(m, set[i]) THEN TRUE
  ELSE isInSetFrom(m, set, i + 1)

isInSet(m, set) == isInSetFrom(m, set, 1)

\* A variant of the addToSet loop with the rank comparison turned around.
RECURSIVE addToSetLoopRankReversed(_, _, _, _, _, _)
addToSetLoopRankReversed(m, set, i, copy, started, placed) ==
  IF i > Len(set)
  THEN LET c == IF started THEN copy ELSE set
       IN  IF placed THEN c ELSE Append(c, m)
  ELSE LET other == set[i]
           sliced == IF started THEN copy ELSE SubSeq(set, 1, i - 1)
       IN  IF MarkEq(m, other) THEN set
           ELSE IF excludes(m.type, other.type)
             THEN addToSetLoopRankReversed(m, set, i + 1, sliced, TRUE, placed)
           ELSE IF excludes(other.type, m.type) THEN set
           ELSE LET place == ~placed /\ rank(other.type) < rank(m.type)
                    c1 == IF place THEN Append(sliced, m) ELSE copy
                    s1 == started \/ place
                    c2 == IF s1 THEN Append(c1, other) ELSE c1
                IN  addToSetLoopRankReversed(m, set, i + 1, c2, s1, placed \/ place)

\* A variant of the addToSet loop that adds the mark even when an element of
\* the set excludes it.
RECURSIVE addToSetLoopNoRefusal(_, _, _, _, _, _)
addToSetLoopNoRefusal(m, set, i, copy, started, placed) ==
  IF i > Len(set)
  THEN LET c == IF started THEN copy ELSE set
       IN  IF placed THEN c ELSE Append(c, m)
  ELSE LET other == set[i]
           sliced == IF started THEN copy ELSE SubSeq(set, 1, i - 1)
       IN  IF MarkEq(m, other) THEN set
           ELSE IF excludes(m.type, other.type)
             THEN addToSetLoopNoRefusal(m, set, i + 1, sliced, TRUE, placed)
           ELSE LET place == ~placed /\ rank(other.type) > rank(m.type)
                    c1 == IF place THEN Append(sliced, m) ELSE copy
                    s1 == started \/ place
                    c2 == IF s1 THEN Append(c1, other) ELSE c1
                IN  addToSetLoopNoRefusal(m, set, i + 1, c2, s1, placed \/ place)

\* A variant of the addToSet loop without the test for the mark being in the
\* set already.
RECURSIVE addToSetLoopNoEqTest(_, _, _, _, _, _)
addToSetLoopNoEqTest(m, set, i, copy, started, placed) ==
  IF i > Len(set)
  THEN LET c == IF started THEN copy ELSE set
       IN  IF placed THEN c ELSE Append(c, m)
  ELSE LET other == set[i]
           sliced == IF started THEN copy ELSE SubSeq(set, 1, i - 1)
       IN  IF excludes(m.type, other.type)
             THEN addToSetLoopNoEqTest(m, set, i + 1, sliced, TRUE, placed)
           ELSE IF excludes(other.type, m.type) THEN set
           ELSE LET place == ~placed /\ rank(other.type) > rank(m.type)
                    c1 == IF place THEN Append(sliced, m) ELSE copy
                    s1 == started \/ place
                    c2 == IF s1 THEN Append(c1, other) ELSE c1
                IN  addToSetLoopNoEqTest(m, set, i + 1, c2, s1, placed \/ place)

\* The loop of addToSet from index i on; started says whether copy exists yet.
RECURSIVE addToSetLoop(_, _, _, _, _, _)
addToSetLoop(m, set, i, copy, started, placed) ==
  IF i > Len(set)
  THEN LET c == IF started THEN copy ELSE set
       IN  IF placed THEN c ELSE Append(c, m)
  ELSE LET other == set[i]
           sliced == IF started THEN copy ELSE SubSeq(set, 1, i - 1)
       IN  IF MarkEq(m, other) THEN set
           ELSE IF excludes(m.type, other.type)
             THEN addToSetLoop(m, set, i + 1, sliced, TRUE, placed)
           ELSE IF excludes(other.type, m.type) THEN set
           ELSE LET place == ~placed /\ rank(other.type) > rank(m.type)
                    c1 == IF place THEN Append(sliced, m) ELSE copy
                    s1 == started \/ place
                    c2 == IF s1 THEN Append(c1, other) ELSE c1
                IN  addToSetLoop(m, set, i + 1, c2, s1, placed \/ place)

addToSet(m, set) == addToSetLoop(m, set, 1, <<>>, FALSE, FALSE)

\* A variant of removeFromSet that also drops what follows the mark.
RECURSIVE removeFromSetFromTruncating(_, _, _)
removeFromSetFromTruncating(m, set, i) ==
  IF i > Len(set) THEN set
  ELSE IF MarkEq(m, set[i])
    THEN SubSeq(set, 1, i - 1)
  ELSE removeFromSetFromTruncating(m, set, i + 1)

RECURSIVE removeFromSetFrom(_, _, _)
removeFromSetFrom(m, set, i) ==
  IF i > Len(set) THEN set
  ELSE IF MarkEq(m, set[i])
    THEN SubSeq(set, 1, i - 1) \o SubSeq(set, i + 1, Len(set))
  ELSE removeFromSetFrom(m, set, i + 1)

removeFromSet(m, set) == removeFromSetFrom(m, set, 1)

Mark_setFrom(marks) == SortSeq(marks, LAMBDA a, b : rank(a.type) < rank(b.type))

(***************************************************************************)
(* Node types.  The schema of the documents: doc and blockquote hold one   *)
(* or more blocks, a paragraph and a heading hold inline nodes, text and    *)
(* image are leaves.  No node type has attributes.                         *)
(***************************************************************************)
NodeNames == <<"doc", "blockquote", "paragraph", "heading", "text", "image">>

NodeTypes == {NodeNames[i] : i \in 1..Len(NodeNames)}

ContentExprOf(type) ==
  CASE type \in {"doc", "blockquote"} -> "block+"
    [] type \in {"paragraph", "heading"} -> "inline*"
    [] OTHER -> ""

GroupOf(type) ==
  CASE type \in {"blockquote", "paragraph", "heading"} -> "block"
    [] type \in {"text", "image"} -> "inline"
    [] OTHER -> ""

\* NodeSpec.inline
SpecInline(type) == type \in {"text", "image"}

(***************************************************************************)
(* ContentMatch: a state of the automaton of a content expression.         *)
(* "block+" has a start state and an accepting state, "inline*" and ""     *)
(* have one accepting state each.                                          *)
(***************************************************************************)
NullMatch == "null"

ContentMatch_empty == "empty"

ContentMatch_parse(expr) ==
  CASE expr = "block+" -> "block+:start"
    [] expr = "inline*" -> "inline*"
    [] OTHER -> ContentMatch_empty

matchType(match, type) ==
  CASE match \in {"block+:start", "block+:more"} /\ GroupOf(type) = "block" -> "block+:more"
    [] match = "inline*" /\ GroupOf(type) = "inline" -> "inline*"
    [] OTHER -> NullMatch

validEnd(match) == match \in {"block+:more", "inline*", ContentMatch_empty}

ContentMatch_inlineContent(match) == match = "inline*"

compatible(match, other) ==
  \E t \in NodeTypes : matchType(match, t) # NullMatch /\ matchType(other, t) # NullMatch

RECURSIVE matchFragment(_, _, _, _)
matchFragment(match, frag, start, end) ==
  IF match = NullMatch \/ start >= end THEN match
  ELSE matchFragment(matchType(match, frag.content[start + 1].type), frag, start + 1, end)

(***************************************************************************)
(* NodeType                                                                *)
(***************************************************************************)
contentMatch(type) == ContentMatch_parse(ContentExprOf(type))

inlineContent(type) == ContentMatch_inlineContent(contentMatch(type))

isText(type) == type = "text"

isBlock(type) == ~(SpecInline(type) \/ type = "text")

isInline(type) == ~isBlock(type)

isTextblock(type) == isBlock(type) /\ inlineContent(type)

isLeaf(type) == contentMatch(type) = ContentMatch_empty

\* markSet: null (every mark allowed) for a type with inline content, [] otherwise.
markSetIsNull(type) == inlineContent(type)

allowsMarkType(type, markType) == markSetIsNull(type)

allowsMarks(type, marks) ==
  IF markSetIsNull(type) THEN TRUE
  ELSE \A i \in 1..Len(marks) : allowsMarkType(type, marks[i].type)

compatibleContent(type, other) ==
  type = other \/ compatible(contentMatch(type), contentMatch(other))

(***************************************************************************)
(* Nodes and fragments.  A node is [type, marks, content, text]: content   *)
(* is a fragment (the empty one for a text node), text the characters of   *)
(* a text node (<<>> otherwise).  A fragment is its array of children and  *)
(* its cached size.  Child indices are counted from 0, as in the source.   *)
(***************************************************************************)
\* F(v), with v evaluated once however often F uses it.
Bind(v, F(_)) == CHOOSE r \in {F(x) : x \in {v}} : TRUE

Max(a, b) == IF a > b THEN a ELSE b

Min(a, b) == IF a < b THEN a ELSE b

nodeSize(node) ==
  IF isText(node.type) THEN Len(node.text)
  ELSE IF isLeaf(node.type) THEN 1
  ELSE 2 + node.content.size

RECURSIVE SumNodeSize(_, _)
SumNodeSize(content, i) ==
  IF i > Len(content) THEN 0
  ELSE nodeSize(content[i]) + SumNodeSize(content, i + 1)

\* new Fragment(content, size)
FragmentSized(content, size) == [content |-> content, size |-> size]

\* new Fragment(content): the size is summed over the children
Fragment(content) == Bind(content, LAMBDA c : FragmentSized(c, SumNodeSize(c, 1)))

Fragment_empty == FragmentSized(<<>>, 0)

Node(type, content, marks) ==
  [type |-> type, marks |-> marks, content |-> content, text |-> <<>>]

TextNode(text, marks) ==
  [type |-> "text", marks |-> marks, content |-> Fragment_empty, text |-> text]

childCount(frag) == Len(frag.content)

child(frag, index) == frag.content[index + 1]

firstChild(frag) == frag.content[1]

lastChild(frag) == frag.content[Len(frag.content)]

sameMarkup(node, other) == node.type = other.type /\ sameSet(node.marks, other.marks)

withText(node, text) == [node EXCEPT !.text = text]

copy(node, content) == [node EXCEPT !.content = content]

RECURSIVE nodeEq(_, _)
RECURSIVE fragEq(_, _)
nodeEq(node, other) ==
  IF isText(node.type) THEN sameMarkup(node, other) /\ node.text = other.text
  ELSE sameMarkup(node, other) /\ fragEq(node.content, other.content)

fragEq(frag, other) ==
  IF Len(frag.content) # Len(other.content) THEN FALSE
  ELSE \A i \in 1..Len(frag.content) : nodeEq(frag.content[i], other.content[i])

RECURSIVE nodeCut(_, _, _)
RECURSIVE fragCut(_, _, _)
RECURSIVE fragCutLoop(_, _, _, _, _, _, _)
RECURSIVE fragCutLoopAbsoluteFrom(_, _, _, _, _, _, _)
\* TextNode.cut and Node.cut
nodeCut(node, from, to) ==
  IF isText(node.type)
  THEN IF from = 0 /\ to = Len(node.text) THEN node
       ELSE withText(node, SubSeq(node.text, from + 1, to))
  ELSE IF from = 0 /\ to = node.content.size THEN node
       ELSE copy(node, fragCut(node.content, from, to))

\* A variant of the loop that cuts a text child at from, not at from - pos.
fragCutLoopAbsoluteFrom(frag, from, to, i, pos, result, size) ==
  IF ~(pos < to) THEN FragmentSized(result, size)
  ELSE LET c == frag.content[i + 1]
           end == pos + nodeSize(c)
           cutChild ==
             IF pos < from \/ end > to
             THEN IF isText(c.type)
                  THEN nodeCut(c, Max(0, from), Min(Len(c.text), to - pos))
                  ELSE nodeCut(c, Max(0, from - pos - 1), Min(c.content.size, to - pos - 1))
             ELSE c
       IN  IF end > from
           THEN Bind(cutChild, LAMBDA cc :
                  fragCutLoopAbsoluteFrom(frag, from, to, i + 1, end,
                              Append(result, cc), size + nodeSize(cc)))
           ELSE fragCutLoopAbsoluteFrom(frag, from, to, i + 1, end, result, size)

fragCutLoop(frag, from, to, i, pos, result, size) ==
  IF ~(pos < to) THEN FragmentSized(result, size)
  ELSE LET c == frag.content[i + 1]
           end == pos + nodeSize(c)
           cutChild ==
             IF pos < from \/ end > to
             THEN IF isText(c.type)
                  THEN nodeCut(c, Max(0, from - pos), Min(Len(c.text), to - pos))
                  ELSE nodeCut(c, Max(0, from - pos - 1), Min(c.content.size, to - pos - 1))
             ELSE c
       IN  IF end > from
           THEN Bind(cutChild, LAMBDA cc :
                  fragCutLoop(frag, from, to, i + 1, end,
                              Append(result, cc), size + nodeSize(cc)))
           ELSE fragCutLoop(frag, from, to, i + 1, end, result, size)

\* Fragment.cut(from, to)
fragCut(frag, from, to) ==
  IF from = 0 /\ to = frag.size THEN frag
  ELSE IF to > from THEN fragCutLoop(frag, from, to, 0, 0, <<>>, 0)
  ELSE FragmentSized(<<>>, 0)

\* Fragment.cut(from), to defaulting to the size
fragCutFrom(frag, from) == fragCut(frag, from, frag.size)

\* A variant of append that never joins the text nodes at the boundary.
appendNoJoin(frag, other) ==
  IF other.size = 0 THEN frag
  ELSE IF frag.size = 0 THEN other
  ELSE FragmentSized(frag.content \o other.content, frag.size + other.size)

\* Fragment.append
append(frag, other) ==
  IF other.size = 0 THEN frag
  ELSE IF frag.size = 0 THEN other
  ELSE LET last == lastChild(frag)
           first == firstChild(other)
           n == Len(frag.content)
       IN  IF isText(last.type) /\ sameMarkup(last, first)
           THEN FragmentSized(
                  [frag.content EXCEPT ![n] = withText(last, last.text \o first.text)]
                    \o Tail(other.content),
                  frag.size + other.size)
           ELSE FragmentSized(frag.content \o other.content, frag.size + other.size)

\* A variant of replaceChild that keeps the cached size of the old fragment.
replaceChildKeepSize(frag, index, node) ==
  LET current == frag.content[index + 1]
  IN  IF current = node THEN frag
      ELSE FragmentSized([frag.content EXCEPT ![index + 1] = node], frag.size)

\* Fragment.replaceChild
replaceChild(frag, index, node) ==
  LET current == frag.content[index + 1]
  IN  IF current = node THEN frag
      ELSE FragmentSized([frag.content EXCEPT ![index + 1] = node],
                         frag.size + nodeSize(node) - nodeSize(current))

\* Fragment.addToStart
addToStart(frag, node) == FragmentSized(<<node>> \o frag.content, frag.size + nodeSize(node))

\* Fragment.addToEnd
addToEnd(frag, node) == FragmentSized(Append(frag.content, node), frag.size + nodeSize(node))

\* The loop of Fragment.fromArray; started says whether joined exists yet.
RECURSIVE fromArrayLoop(_, _, _, _, _)
fromArrayLoop(array, i, joined, started, size) ==
  IF i > Len(array) THEN FragmentSized(IF started THEN joined ELSE array, size)
  ELSE LET node == array[i]
           size1 == size + nodeSize(node)
       IN  IF i > 1 /\ isText(node.type) /\ sameMarkup(array[i - 1], node)
           THEN LET j == IF started THEN joined ELSE SubSeq(array, 1, i - 1)
                    n == Len(j)
                IN  fromArrayLoop(array, i + 1,
                                  [j EXCEPT ![n] = withText(node, j[n].text \o node.text)],
                                  TRUE, size1)
           ELSE IF started
             THEN fromArrayLoop(array, i + 1, Append(joined, node), TRUE, size1)
           ELSE fromArrayLoop(array, i + 1, joined, FALSE, size1)

\* Fragment.fromArray
fromArray(array) ==
  IF Len(array) = 0 THEN Fragment_empty
  ELSE fromArrayLoop(array, 1, <<>>, FALSE, 0)

\* Fragment.from, given a single node
Fragment_fromNode(node) == FragmentSized(<<node>>, nodeSize(node))

(***************************************************************************)
(* JSON.  A node's JSON object is [type, marks, content, text]; a property *)
(* the object lacks holds <<>>, and a mark's lacking attrs holds           *)
(* JSONAbsent.                                                             *)
(***************************************************************************)
JSONAbsent == 0 - 1

\* Mark.toJSON: attrs is written when the mark has an attribute, which in
\* this schema is the href of a link.
markToJSON(mark) ==
  [type |-> mark.type,
   attrs |-> IF mark.type = "link" THEN mark.attrs ELSE JSONAbsent]

\* A variant of Mark.fromJSON that creates the mark without the attrs.
markFromJSONNoAttrs(json) == [type |-> json.type, attrs |-> NoAttrs]

\* Mark.fromJSON: type.create(json.attrs)
markFromJSON(json) ==
  [type |-> json.type,
   attrs |-> IF json.type = "link" THEN json.attrs ELSE NoAttrs]

RECURSIVE nodeToJSON(_)
\* Node.toJSON and TextNode.toJSON
nodeToJSON(node) ==
  [type |-> node.type,
   marks |-> [i \in 1..Len(node.marks) |-> markToJSON(node.marks[i])],
   content |-> [i \in 1..Len(node.content.content) |-> nodeToJSON(node.content.content[i])],
   text |-> node.text]

RECURSIVE nodeFromJSON(_)
\* Node.fromJSON, with Fragment.fromJSON for the content
nodeFromJSON(json) ==
  LET marks == Mark_setFrom([i \in 1..Len(json.marks) |-> markFromJSON(json.marks[i])])
  IN  IF json.type = "text" THEN TextNode(json.text, marks)
      ELSE Node(json.type,
                IF json.content = <<>> THEN Fragment_empty
                ELSE Fragment([i \in 1..Len(json.content) |-> nodeFromJSON(json.content[i])]),
                marks)

\* Fragment.fromJSON
Fragment_fromJSON(value) ==
  IF value = <<>> THEN Fragment_empty
  ELSE Fragment([i \in 1..Len(value) |-> nodeFromJSON(value[i])])

(***************************************************************************)
(* NodeType.validContent and Node.check                                    *)
(***************************************************************************)
\* A variant of validContent that looks at the content match only.
validContentMatchOnly(type, content) ==
  LET result == matchFragment(contentMatch(type), content, 0, childCount(content))
  IN  ~(result = NullMatch \/ ~validEnd(result))

validContent(type, content) ==
  LET result == matchFragment(contentMatch(type), content, 0, childCount(content))
  IN  IF result = NullMatch \/ ~validEnd(result) THEN FALSE
      ELSE \A i \in 0..(childCount(content) - 1) :
             allowsMarks(type, child(content, i).marks)

\* Node.check: TRUE when it returns, FALSE when it raises its RangeError.
RECURSIVE check(_)
check(node) ==
  /\ validContent(node.type, node.content)
  /\ \A i \in 1..Len(node.content.content) : check(node.content.content[i])

(***************************************************************************)
(* Fragment.findIndex and ResolvedPos.  A resolved position is             *)
(* [pos, path, depth, parentOffset] with path the array                    *)
(* <<node_0, index_0, offset_0, node_1, ...>>; err is "RangeError" when    *)
(* the position is out of range.                                           *)
(***************************************************************************)
retIndex(index, offset) == [index |-> index, offset |-> offset]

RECURSIVE findIndexLoop(_, _, _, _, _)
findIndexLoop(frag, pos, round, i, curPos) ==
  LET end == curPos + nodeSize(child(frag, i))
  IN  IF end >= pos
      THEN IF end = pos \/ round > 0 THEN retIndex(i + 1, end)
           ELSE retIndex(i, curPos)
      ELSE findIndexLoop(frag, pos, round, i + 1, end)

\* Fragment.findIndex(pos, round), for 0 <= pos <= size
findIndex(frag, pos, round) ==
  IF pos = 0 THEN retIndex(0, pos)
  ELSE IF pos = frag.size THEN retIndex(Len(frag.content), pos)
  ELSE findIndexLoop(frag, pos, round, 0, 0)

ResolvedPos(pos, path, parentOffset) ==
  [err |-> "", pos |-> pos, path |-> path,
   depth |-> (Len(path) \div 3) - 1, parentOffset |-> parentOffset]

ResolveRangeError(pos) ==
  [err |-> "RangeError", pos |-> pos, path |-> <<>>, depth |-> 0 - 1, parentOffset |-> 0]

\* null, where a resolved position is optional
NullPos == [err |-> "null", pos |-> 0, path |-> <<>>, depth |-> 0 - 1, parentOffset |-> 0]

isNull(rp) == rp.err = "null"

\* null, where a node is optional
NullNode == [type |-> "null", marks |-> <<>>, content |-> [content |-> <<>>, size |-> 0]]

\* A variant of the loop that does not count the opening token of the node
\* it enters.
RECURSIVE resolveLoopNoToken(_, _, _, _, _)
resolveLoopNoToken(pos, node, path, start, parentOffset) ==
  LET found == findIndex(node.content, parentOffset, 0 - 1)
      rem == parentOffset - found.offset
      path1 == path \o <<node, found.index, start + found.offset>>
  IN  IF rem = 0 THEN ResolvedPos(pos, path1, parentOffset)
      ELSE LET next == child(node.content, found.index)
           IN  IF isText(next.type) THEN ResolvedPos(pos, path1, parentOffset)
               ELSE resolveLoopNoToken(pos, next, path1, start + found.offset, rem - 1)

RECURSIVE resolveLoop(_, _, _, _, _)
resolveLoop(pos, node, path, start, parentOffset) ==
  LET found == findIndex(node.content, parentOffset, 0 - 1)
      rem == parentOffset - found.offset
      path1 == path \o <<node, found.index, start + found.offset>>
  IN  IF rem = 0 THEN ResolvedPos(pos, path1, parentOffset)
      ELSE LET next == child(node.content, found.index)
           IN  IF isText(next.type) THEN ResolvedPos(pos, path1, parentOffset)
               ELSE resolveLoop(pos, next, path1, start + found.offset + 1, rem - 1)

\* ResolvedPos.resolve(doc, pos)
resolve(doc, pos) ==
  IF ~(pos >= 0 /\ pos <= doc.content.size) THEN ResolveRangeError(pos)
  ELSE resolveLoop(pos, doc, <<>>, 0, pos)

\* ResolvedPos.node(depth), .index(depth), .start(depth), .end(depth)
posNode(rp, depth) == rp.path[depth * 3 + 1]

posIndex(rp, depth) == rp.path[depth * 3 + 2]

posStart(rp, depth) == IF depth = 0 THEN 0 ELSE rp.path[depth * 3] + 1

posEnd(rp, depth) == posStart(rp, depth) + posNode(rp, depth).content.size

parent(rp) == posNode(rp, rp.depth)

textOffset(rp) == rp.pos - rp.path[Len(rp.path)]

nodeAfter(rp) ==
  LET index == posIndex(rp, rp.depth)
      dOff == rp.pos - rp.path[Len(rp.path)]
  IN  IF index = childCount(parent(rp).content) THEN NullNode
      ELSE LET c == child(parent(rp).content, index)
           IN  IF dOff # 0 THEN nodeCut(c, dOff, Len(c.text)) ELSE c

nodeBefore(rp) ==
  LET index == posIndex(rp, rp.depth)
      dOff == rp.pos - rp.path[Len(rp.path)]
  IN  IF dOff # 0 THEN nodeCut(child(parent(rp).content, index), 0, dOff)
      ELSE IF index = 0 THEN NullNode
      ELSE child(parent(rp).content, index - 1)

RECURSIVE sharedDepthFrom(_, _, _)
sharedDepthFrom(rp, pos, depth) ==
  IF depth > 0
  THEN IF posStart(rp, depth) <= pos /\ posEnd(rp, depth) >= pos THEN depth
       ELSE sharedDepthFrom(rp, pos, depth - 1)
  ELSE 0

\* ResolvedPos.sharedDepth(pos)
sharedDepth(rp, pos) == sharedDepthFrom(rp, pos, rp.depth)

\* Fragment.maybeChild(index); null when there is no such child
maybeChild(frag, index) ==
  IF index >= 0 /\ index < childCount(frag) THEN child(frag, index) ELSE NullNode

\* MarkSpec.inclusive === false: link and code do not extend to what is
\* typed at their end, em has no inclusive property.
inclusiveIsFalse(type) == type \in {"link", "code"}

\* The loop of marks() and marksAcross() from index i on (counted from 1):
\* a mark that is dropped makes the next one take its place.
RECURSIVE dropNonInclusive(_, _, _)
dropNonInclusive(marks, other, i) ==
  IF i > Len(marks) THEN marks
  ELSE IF /\ inclusiveIsFalse(marks[i].type)
          /\ (other.type = NullNode.type \/ ~isInSet(marks[i], other.marks))
    THEN dropNonInclusive(removeFromSet(marks[i], marks), other, i)
  ELSE dropNonInclusive(marks, other, i + 1)

\* A variant of ResolvedPos.marks() that takes the node after the position as the
\* main node whenever there is one.
posMarksMainAfter(rp) ==
  LET index == posIndex(rp, rp.depth)
      content == parent(rp).content
  IN  IF content.size = 0 THEN Mark_none
      ELSE IF textOffset(rp) # 0 THEN child(content, index).marks
      ELSE LET before == maybeChild(content, index - 1)
               after == maybeChild(content, index)
               swap == after.type # NullNode.type
           IN  dropNonInclusive((IF swap THEN after ELSE before).marks,
                                IF swap THEN before ELSE after, 1)

\* ResolvedPos.marks()
posMarks(rp) ==
  LET index == posIndex(rp, rp.depth)
      content == parent(rp).content
  IN  IF content.size = 0 THEN Mark_none
      ELSE IF textOffset(rp) # 0 THEN child(content, index).marks
      ELSE LET before == maybeChild(content, index - 1)
               after == maybeChild(content, index)
               swap == before.type = NullNode.type
           IN  dropNonInclusive((IF swap THEN after ELSE before).marks,
                                IF swap THEN NullNode ELSE after, 1)

\* null, where a mark set is optional
NullMarks == [null |-> TRUE, marks |-> <<>>]

SomeMarks(set) == [null |-> FALSE, marks |-> set]

\* A variant of marksAcross() that does not test whether the node after the
\* position is inline.
marksAcrossAnyAfter(rp, end) ==
  LET after == maybeChild(parent(rp).content, posIndex(rp, rp.depth))
  IN  IF after.type = NullNode.type THEN NullMarks
      ELSE SomeMarks(dropNonInclusive(
             after.marks, maybeChild(parent(end).content, posIndex(end, end.depth)), 1))

\* ResolvedPos.marksAcross($end)
marksAcross(rp, end) ==
  LET after == maybeChild(parent(rp).content, posIndex(rp, rp.depth))
  IN  IF after.type = NullNode.type \/ ~isInline(after.type) THEN NullMarks
      ELSE SomeMarks(dropNonInclusive(
             after.marks, maybeChild(parent(end).content, posIndex(end, end.depth)), 1))

\* ResolvedPos.indexAfter(depth), .before(depth), .after(depth); before and
\* after are called with depth > 0 only.
posIndexAfter(rp, depth) ==
  posIndex(rp, depth) + (IF depth = rp.depth /\ textOffset(rp) = 0 THEN 0 ELSE 1)

posBefore(rp, depth) == IF depth = rp.depth + 1 THEN rp.pos ELSE rp.path[depth * 3]

posAfter(rp, depth) ==
  IF depth = rp.depth + 1 THEN rp.pos
  ELSE rp.path[depth * 3] + nodeSize(rp.path[depth * 3 + 1])

\* NodeRange and its getters
NodeRange(from, to, depth) == [null |-> FALSE, from |-> from, to |-> to, depth |-> depth]

\* undefined, where blockRange finds no range
NullRange == [null |-> TRUE, from |-> NullPos, to |-> NullPos, depth |-> 0 - 1]

rangeStart(range) == posBefore(range.from, range.depth + 1)

rangeEnd(range) == posAfter(range.to, range.depth + 1)

rangeParent(range) == posNode(range.from, range.depth)

rangeStartIndex(range) == posIndex(range.from, range.depth)

rangeEndIndex(range) == posIndexAfter(range.to, range.depth)

\* The predicates given to blockRange: none, or a test of the node's type.
Preds == {"none", "blockquote", "doc", "textblock", "never"}

pred(name, node) ==
  CASE name = "blockquote" -> node.type = "blockquote"
    [] name = "doc" -> node.type = "doc"
    [] name = "textblock" -> isTextblock(node.type)
    [] OTHER -> FALSE

\* A variant of the loop of blockRange that does not call the predicate.
RECURSIVE blockRangeLoopNoPred(_, _, _, _)
blockRangeLoopNoPred(rp, other, name, d) ==
  IF d < 0 THEN NullRange
  ELSE IF other.pos <= posEnd(rp, d)
    THEN NodeRange(rp, other, d)
  ELSE blockRangeLoopNoPred(rp, other, name, d - 1)

\* A variant of the loop of blockRange that does not test whether the other
\* position lies before the end of the node.
RECURSIVE blockRangeLoopNoEnd(_, _, _, _)
blockRangeLoopNoEnd(rp, other, name, d) ==
  IF d < 0 THEN NullRange
  ELSE IF name = "none" \/ pred(name, posNode(rp, d))
    THEN NodeRange(rp, other, d)
  ELSE blockRangeLoopNoEnd(rp, other, name, d - 1)

\* The loop of blockRange from depth d down.
RECURSIVE blockRangeLoop(_, _, _, _)
blockRangeLoop(rp, other, name, d) ==
  IF d < 0 THEN NullRange
  ELSE IF other.pos <= posEnd(rp, d) /\ (name = "none" \/ pred(name, posNode(rp, d)))
    THEN NodeRange(rp, other, d)
  ELSE blockRangeLoop(rp, other, name, d - 1)

\* ResolvedPos.blockRange(other, pred); a call with the later position as
\* this goes on as other.blockRange(this), without the predicate.
RECURSIVE blockRange(_, _, _)
blockRange(rp, other, name) ==
  IF other.pos < rp.pos THEN blockRange(other, rp, "none")
  ELSE blockRangeLoop(
         rp, other, name,
         rp.depth - (IF inlineContent(parent(rp).type) \/ rp.pos = other.pos THEN 1 ELSE 0))

(***************************************************************************)
(* Slice and Node.slice                                                    *)
(***************************************************************************)
Slice(content, openStart, openEnd) ==
  [content |-> content, openStart |-> openStart, openEnd |-> openEnd]

Slice_empty == Slice(Fragment_empty, 0, 0)

\* Slice.size
sliceSize(slice) == slice.content.size - slice.openStart - slice.openEnd

\* A variant of Node.slice that takes the open depth of the end from $from.
nodeSliceEndFromStart(node, from, to, includeParents) ==
  IF from = to THEN Slice_empty
  ELSE Bind(<<resolve(node, from), resolve(node, to)>>, LAMBDA pair :
         LET Sfrom == pair[1]
             Sto == pair[2]
             depth == IF includeParents THEN 0 ELSE sharedDepth(Sfrom, to)
             start == posStart(Sfrom, depth)
             n == posNode(Sfrom, depth)
             content == fragCut(n.content, Sfrom.pos - start, Sto.pos - start)
         IN  Slice(content, Sfrom.depth - depth, Sfrom.depth - depth))

\* Node.slice(from, to, includeParents), for positions in range.  The
\* positions are resolved as ResolvedPos.resolve resolves them: the cache
\* Node.resolve goes through holds what resolve returned for the same
\* document and position.
nodeSlice(node, from, to, includeParents) ==
  IF from = to THEN Slice_empty
  ELSE Bind(<<resolve(node, from), resolve(node, to)>>, LAMBDA pair :
         LET Sfrom == pair[1]
             Sto == pair[2]
             depth == IF includeParents THEN 0 ELSE sharedDepth(Sfrom, to)
             start == posStart(Sfrom, depth)
             n == posNode(Sfrom, depth)
             content == fragCut(n.content, Sfrom.pos - start, Sto.pos - start)
         IN  Slice(content, Sfrom.depth - depth, Sto.depth - depth))

(***************************************************************************)
(* replace.  A result is [err, val]: err is "" and val the value when the  *)
(* call returns, err is the message of the ReplaceError when it raises.    *)
(***************************************************************************)
Ok(val) == [err |-> "", val |-> val]

ReplaceError(message) == [err |-> message, val |-> Fragment_empty]

\* A variant of checkJoin that lets only nodes of one type join.
checkJoinSameType(main, sub) == sub.type = main.type

\* checkJoin raises unless this holds
checkJoin(main, sub) == compatibleContent(sub.type, main.type)

\* joinable($before, $after, depth) raises unless this holds
joinable(Sbefore, Safter, depth) ==
  checkJoin(posNode(Sbefore, depth), posNode(Safter, depth))

CannotJoin(main, sub) == ReplaceError("Cannot join " \o sub.type \o " onto " \o main.type)

\* A variant of addNode that never joins text nodes.
addNodeNoJoin(c, target) == Append(target, c)

addNode(c, target) ==
  LET last == Len(target)
  IN  IF last >= 1 /\ isText(c.type) /\ sameMarkup(c, target[last])
      THEN [target EXCEPT ![last] = withText(c, target[last].text \o c.text)]
      ELSE Append(target, c)

RECURSIVE addChildren(_, _, _, _)
addChildren(node, i, endIndex, target) ==
  IF i < endIndex
  THEN addChildren(node, i + 1, endIndex, addNode(child(node.content, i), target))
  ELSE target

\* A variant of addRange that leaves out the text before $end.
addRangeNoEndText(Sstart, Send, depth, target) ==
  LET node == posNode(IF ~isNull(Send) THEN Send ELSE Sstart, depth)
      endIndex == IF ~isNull(Send) THEN posIndex(Send, depth) ELSE childCount(node.content)
      cutStart == ~isNull(Sstart) /\ ~(Sstart.depth > depth) /\ textOffset(Sstart) # 0
      startIndex ==
        IF isNull(Sstart) THEN 0
        ELSE IF Sstart.depth > depth \/ textOffset(Sstart) # 0
          THEN posIndex(Sstart, depth) + 1
        ELSE posIndex(Sstart, depth)
      t1 == IF cutStart THEN addNode(nodeAfter(Sstart), target) ELSE target
  IN  addChildren(node, startIndex, endIndex, t1)

addRange(Sstart, Send, depth, target) ==
  LET node == posNode(IF ~isNull(Send) THEN Send ELSE Sstart, depth)
      endIndex == IF ~isNull(Send) THEN posIndex(Send, depth) ELSE childCount(node.content)
      cutStart == ~isNull(Sstart) /\ ~(Sstart.depth > depth) /\ textOffset(Sstart) # 0
      startIndex ==
        IF isNull(Sstart) THEN 0
        ELSE IF Sstart.depth > depth \/ textOffset(Sstart) # 0
          THEN posIndex(Sstart, depth) + 1
        ELSE posIndex(Sstart, depth)
      t1 == IF cutStart THEN addNode(nodeAfter(Sstart), target) ELSE target
      t2 == addChildren(node, startIndex, endIndex, t1)
  IN  IF ~isNull(Send) /\ Send.depth = depth /\ textOffset(Send) # 0
      THEN addNode(nodeBefore(Send), t2)
      ELSE t2

\* A variant of close that does not validate the content.
closeUnchecked(node, content) == Ok(copy(node, content))

close(node, content) ==
  Bind(content, LAMBDA c :
    IF ~validContent(node.type, c)
    THEN ReplaceError("Invalid content for node " \o node.type)
    ELSE Ok(copy(node, c)))

\* close(node, inner), raising what inner raised
closeResult(node, result) ==
  Bind(result, LAMBDA inner : IF inner.err # "" THEN inner ELSE close(node, inner.val))

\* addNode(closed, content) followed by addRange($to, null, depth, content)
\* and new Fragment(content), raising what closed raised
finish(closed, content, Sto, depth) ==
  Bind(closed, LAMBDA c :
    IF c.err # "" THEN c
    ELSE Ok(Fragment(addRange(Sto, NullPos, depth, addNode(c.val, content)))))

RECURSIVE replaceTwoWay(_, _, _)
replaceTwoWay(Sfrom, Sto, depth) ==
  LET content == addRange(NullPos, Sfrom, depth, <<>>)
  IN  IF Sfrom.depth > depth
      THEN IF ~joinable(Sfrom, Sto, depth + 1)
           THEN CannotJoin(posNode(Sfrom, depth + 1), posNode(Sto, depth + 1))
           ELSE finish(closeResult(posNode(Sfrom, depth + 1),
                                   replaceTwoWay(Sfrom, Sto, depth + 1)),
                       content, Sto, depth)
      ELSE Ok(Fragment(addRange(Sto, NullPos, depth, content)))

RECURSIVE replaceThreeWay(_, _, _, _, _)
replaceThreeWay(Sfrom, Sstart, Send, Sto, depth) ==
  LET hasOpenStart == Sfrom.depth > depth
      hasOpenEnd == Sto.depth > depth
      openStart == posNode(Sfrom, depth + 1)
      openEnd == posNode(Send, depth + 1)
      content == addRange(NullPos, Sfrom, depth, <<>>)
  IN  IF hasOpenStart /\ ~joinable(Sfrom, Sstart, depth + 1)
      THEN CannotJoin(openStart, posNode(Sstart, depth + 1))
      ELSE IF hasOpenEnd /\ ~joinable(Send, Sto, depth + 1)
      THEN CannotJoin(openEnd, posNode(Sto, depth + 1))
      ELSE IF hasOpenStart /\ hasOpenEnd /\ posIndex(Sstart, depth) = posIndex(Send, depth)
      THEN IF ~checkJoin(openStart, openEnd) THEN CannotJoin(openStart, openEnd)
           ELSE finish(closeResult(openStart,
                                   replaceThreeWay(Sfrom, Sstart, Send, Sto, depth + 1)),
                       content, Sto, depth)
      ELSE Bind(IF hasOpenStart
                THEN closeResult(openStart, replaceTwoWay(Sfrom, Sstart, depth + 1))
                ELSE Ok(NullNode),
                LAMBDA left :
           IF left.err # "" THEN left
           ELSE Bind(addRange(Sstart, Send, depth,
                              IF hasOpenStart THEN addNode(left.val, content) ELSE content),
                     LAMBDA c2 :
                  IF hasOpenEnd
                  THEN finish(closeResult(openEnd, replaceTwoWay(Send, Sto, depth + 1)),
                              c2, Sto, depth)
                  ELSE Ok(Fragment(addRange(Sto, NullPos, depth, c2)))))

RECURSIVE wrapAlong(_, _, _)
wrapAlong(Salong, i, node) ==
  IF i >= 0
  THEN wrapAlong(Salong, i - 1, copy(posNode(Salong, i), Fragment_fromNode(node)))
  ELSE node

prepareSliceForReplace(slice, Salong) ==
  LET extra == Salong.depth - slice.openStart
  IN  Bind(wrapAlong(Salong, extra - 1, copy(posNode(Salong, extra), slice.content)),
           LAMBDA node :
             [start |-> resolve(node, slice.openStart + extra),
              end |-> resolve(node, node.content.size - slice.openEnd - extra)])

RECURSIVE replaceOuter(_, _, _, _)
replaceOuter(Sfrom, Sto, slice, depth) ==
  LET index == posIndex(Sfrom, depth)
      node == posNode(Sfrom, depth)
  IN  IF index = posIndex(Sto, depth) /\ depth < Sfrom.depth - slice.openStart
      THEN Bind(replaceOuter(Sfrom, Sto, slice, depth + 1), LAMBDA inner :
             IF inner.err # "" THEN inner
             ELSE Ok(copy(node, replaceChild(node.content, index, inner.val))))
      ELSE IF slice.content.size = 0
      THEN closeResult(node, replaceTwoWay(Sfrom, Sto, depth))
      ELSE IF slice.openStart = 0 /\ slice.openEnd = 0
              /\ Sfrom.depth = depth /\ Sto.depth = depth
      THEN LET content == parent(Sfrom).content
           IN  close(parent(Sfrom),
                     append(append(fragCut(content, 0, Sfrom.parentOffset), slice.content),
                            fragCutFrom(content, Sto.parentOffset)))
      ELSE Bind(prepareSliceForReplace(slice, Sfrom), LAMBDA prepared :
             closeResult(node,
                         replaceThreeWay(Sfrom, prepared.start, prepared.end, Sto, depth)))

\* A variant of replace whose first check also refuses a slice exactly as
\* deep as the position.
replaceStrictDepth(Sfrom, Sto, slice) ==
  IF slice.openStart >= Sfrom.depth
  THEN ReplaceError("Inserted content deeper than insertion position")
  ELSE IF Sfrom.depth - slice.openStart # Sto.depth - slice.openEnd
  THEN ReplaceError("Inconsistent open depths")
  ELSE replaceOuter(Sfrom, Sto, slice, 0)

\* replace($from, $to, slice)
replace(Sfrom, Sto, slice) ==
  IF slice.openStart > Sfrom.depth
  THEN ReplaceError("Inserted content deeper than insertion position")
  ELSE IF Sfrom.depth - slice.openStart # Sto.depth - slice.openEnd
  THEN ReplaceError("Inconsistent open depths")
  ELSE replaceOuter(Sfrom, Sto, slice, 0)

\* Node.replace(from, to, slice), for positions in range, resolved as in
\* nodeSlice
nodeReplace(node, from, to, slice) ==
  Bind(<<resolve(node, from), resolve(node, to), slice>>,
       LAMBDA args : replace(args[1], args[2], args[3]))

\* The values of the variables a specification does not use.
NoCut == [dropped |-> 0, shift |-> 0, inner |-> 0, inRange |-> TRUE, same |-> TRUE]

EmptyDoc == Node("doc", Fragment_empty, Mark_none)

NoArgs == [from |-> 0, to |-> 0, slice |-> Slice_empty]

NoResult == [err |-> "none"]

NoLog == [seen |-> 0, misses |-> 0]

(***************************************************************************)
(* SpecMark: a schema is drawn, and a mark set is built from Mark.none.    *)
(***************************************************************************)
InitMark ==
  /\ excluded \in Schemas
  /\ markSet = Mark_none
  /\ prevSet = Mark_none
  /\ lastMark = [type |-> "em", attrs |-> NoAttrs]
  /\ lastOp = "init"
  /\ curFrag = Fragment_empty
  /\ fragMerging = TRUE
  /\ curCut = NoCut
  /\ curDoc = EmptyDoc
  /\ curArgs = NoArgs
  /\ curResult = NoResult
  /\ resolveCache = <<>>
  /\ resolveCachePos = 0
  /\ cacheLog = NoLog

AddToSet(m) ==
  /\ markSet' = addToSet(m, markSet)
  /\ prevSet' = markSet
  /\ lastMark' = m
  /\ lastOp' = "addToSet"
  /\ UNCHANGED <<cacheVars, excluded, fragVars, docVars>>

RemoveFromSet(m) ==
  /\ markSet' = removeFromSet(m, markSet)
  /\ prevSet' = markSet
  /\ lastMark' = m
  /\ lastOp' = "removeFromSet"
  /\ UNCHANGED <<cacheVars, excluded, fragVars, docVars>>

NextMark ==
  \/ \E m \in Marks : AddToSet(m)
  \/ \E m \in Marks : RemoveFromSet(m)

SpecMark == InitMark /\ [][NextMark]_vars

\* The last operation was an addToSet that put its mark into the set.
MarkAdded ==
  /\ lastOp = "addToSet"
  /\ ~isInSet(lastMark, prevSet)
  /\ isInSet(lastMark, markSet)

IndexOfMark(m, set) == CHOOSE i \in 1..Len(set) : MarkEq(m, set[i])

CountOfType(type, set) == Cardinality({i \in 1..Len(set) : set[i].type = type})

(***************************************************************************)
(* C8: a mark set built from the empty set by addToSet and removeFromSet   *)
(* is ordered by non-decreasing rank, and a mark that addToSet adds sits   *)
(* directly before the first remaining element of greater rank, or at the  *)
(* end when there is none.                                                 *)
(***************************************************************************)
C8_RankSorted ==
  /\ \A i \in 1..(Len(markSet) - 1) :
        rank(markSet[i].type) <= rank(markSet[i + 1].type)
  /\ MarkAdded =>
        LET k == IndexOfMark(lastMark, markSet)
        IN  /\ \A j \in 1..(k - 1) :
                  rank(markSet[j].type) <= rank(lastMark.type)
            /\ k < Len(markSet) =>
                  rank(markSet[k + 1].type) > rank(lastMark.type)

\* A mark was added in the middle of a set of three.
C8_Witness ==
  /\ MarkAdded
  /\ Len(markSet) = 3
  /\ MarkEq(markSet[2], lastMark)

(***************************************************************************)
(* C9: a mark set built from the empty set never holds two marks (at       *)
(* different places) of which one's type excludes the other's, and when    *)
(* addToSet adds a mark every element whose type it excludes is gone.      *)
(***************************************************************************)
C9_ExclusionRespecting ==
  /\ \A i, j \in 1..Len(markSet) :
        i # j => markSet[j].type \notin excluded[markSet[i].type]
  /\ MarkAdded =>
        \A i \in 1..Len(prevSet) :
          prevSet[i].type \in excluded[lastMark.type] => ~isInSet(prevSet[i], markSet)

\* A link with a new href replaced the link of a set that also holds em.
C9_Witness ==
  /\ MarkAdded
  /\ lastMark.type = "link"
  /\ \E i \in 1..Len(prevSet) :
        prevSet[i].type = "link" /\ ~isInSet(prevSet[i], markSet)
  /\ \E i \in 1..Len(markSet) : markSet[i].type = "em"

(***************************************************************************)
(* C10 as claimed: each mark type appears at most once in a mark set       *)
(* unless the type's excluded list is empty.                               *)
(***************************************************************************)
C10_OncePerTypeUnlessNoneExcluded ==
  \A t \in MarkTypes : CountOfType(t, markSet) <= 1 \/ excluded[t] = {}

(***************************************************************************)
(* C10 amended: each mark type appears at most once in a mark set unless   *)
(* the type's excluded list does not contain the type itself.              *)
(***************************************************************************)
C10_OncePerTypeUnlessNotSelfExcluded ==
  \A t \in MarkTypes : CountOfType(t, markSet) <= 1 \/ t \notin excluded[t]

\* A second link was offered to a set holding a link of a self-excluding
\* type, and the set still holds one link.
C10_Witness ==
  /\ lastOp = "addToSet"
  /\ lastMark.type = "link"
  /\ "link" \in excluded["link"]
  /\ CountOfType("link", prevSet) = 1
  /\ ~isInSet(lastMark, prevSet)
  /\ CountOfType("link", markSet) = 1

(***************************************************************************)
(* C11 as claimed: when an element of the set has a type that excludes the *)
(* type of the mark, addToSet returns the set unchanged.                   *)
(***************************************************************************)
C11_RefusedWhenExcluded ==
  (/\ lastOp = "addToSet"
   /\ \E i \in 1..Len(prevSet) : excludes(prevSet[i].type, lastMark.type))
  => markSet = prevSet

(***************************************************************************)
(* C11 amended: when an element of the set has a type that excludes the    *)
(* type of the mark and that the type of the mark does not exclude,        *)
(* addToSet returns the set unchanged.                                     *)
(***************************************************************************)
C11_RefusedWhenExcludedOneWay ==
  (/\ lastOp = "addToSet"
   /\ \E i \in 1..Len(prevSet) :
        /\ excludes(prevSet[i].type, lastMark.type)
        /\ ~excludes(lastMark.type, prevSet[i].type))
  => markSet = prevSet

\* A mark was offered to a set of which it excludes the first element while
\* the second element excludes it, and the set came back as it was.
C11_Witness ==
  /\ lastOp = "addToSet"
  /\ Len(prevSet) = 2
  /\ ~isInSet(lastMark, prevSet)
  /\ excludes(lastMark.type, prevSet[1].type)
  /\ excludes(prevSet[2].type, lastMark.type)
  /\ ~excludes(lastMark.type, prevSet[2].type)
  /\ markSet = prevSet

(***************************************************************************)
(* C12: addToSet is idempotent: adding the mark again to the set that      *)
(* addToSet returned gives the same set (Mark.sameSet).                    *)
(***************************************************************************)
C12_AddToSetIdempotent ==
  lastOp = "addToSet" => sameSet(addToSet(lastMark, markSet), markSet)

\* Both ways in which the second call is a no-op have happened: the mark
\* was added (with a second mark of its type beside it), or it was refused.
C12_Witness ==
  /\ lastOp = "addToSet"
  /\ ~isInSet(lastMark, prevSet)
  /\ \/ /\ isInSet(lastMark, markSet)
        /\ CountOfType(lastMark.type, markSet) = 2
        /\ Len(markSet) = 3
     \/ /\ ~isInSet(lastMark, markSet)
        /\ Len(markSet) = 2

(***************************************************************************)
(* C13: when the mark is not in the set and its type excludes no type of   *)
(* an element of the set, removing the mark from the set that addToSet     *)
(* returned gives the set it was added to (Mark.sameSet).                  *)
(***************************************************************************)
C13_RemoveUndoesAdd ==
  (/\ lastOp = "addToSet"
   /\ ~isInSet(lastMark, prevSet)
   /\ \A i \in 1..Len(prevSet) : ~excludes(lastMark.type, prevSet[i].type))
  => sameSet(removeFromSet(lastMark, markSet), prevSet)

\* A mark that excludes nothing in a set of two was added between the two.
C13_Witness ==
  /\ lastOp = "addToSet"
  /\ ~isInSet(lastMark, prevSet)
  /\ \A i \in 1..Len(prevSet) : ~excludes(lastMark.type, prevSet[i].type)
  /\ Len(prevSet) = 2
  /\ Len(markSet) = 3
  /\ MarkEq(markSet[2], lastMark)

(***************************************************************************)
(* SpecFrag: a fragment is built from nodes of a small pool by the         *)
(* operations of Fragment.  Characters are character codes.                *)
(***************************************************************************)
\* The greatest size of a fragment that is built.
MaxFragSize == 3

\* The greatest length of an array given to Fragment.fromArray.
MaxArrayLen == 2

PoolTexts == {TextNode(<<97>>, Mark_none), TextNode(<<98>>, <<[type |-> "em", attrs |-> NoAttrs]>>)}

PoolNodes ==
  PoolTexts \cup
  { Node("image", Fragment_empty, Mark_none),
    Node("paragraph", Fragment_fromNode(TextNode(<<97>>, Mark_none)), Mark_none),
    Node("paragraph", Fragment_empty, <<[type |-> "em", attrs |-> NoAttrs]>>) }

PoolArrays == UNION {[1..n -> PoolNodes] : n \in 0..MaxArrayLen}

\* The content of the closed slices given to replace: nothing, or one node.
SliceArrays == UNION {[1..n -> PoolNodes] : n \in 0..1}

InitFrag ==
  /\ excluded = DefaultExcluded
  /\ markSet = Mark_none
  /\ prevSet = Mark_none
  /\ lastMark = [type |-> "em", attrs |-> NoAttrs]
  /\ lastOp = "init"
  /\ curFrag = Fragment_empty
  /\ fragMerging = TRUE
  /\ curCut = NoCut
  /\ curDoc = EmptyDoc
  /\ curArgs = NoArgs
  /\ curResult = NoResult
  /\ resolveCache = <<>>
  /\ resolveCachePos = 0
  /\ cacheLog = NoLog

FragStep(op, result, merging) ==
  /\ \E built \in {result} :
       /\ built.size <= MaxFragSize
       /\ curFrag' = built
  /\ fragMerging' = merging
  /\ lastOp' = op
  /\ curCut' = NoCut
  /\ UNCHANGED <<cacheVars, excluded, markVars, docVars>>

FromArray(array) == FragStep("fromArray", fromArray(array), TRUE)

FromNode(node) == FragStep("from", Fragment_fromNode(node), TRUE)

AppendFragment(array) ==
  FragStep("append", append(curFrag, fromArray(array)), fragMerging)

Cut(from, to) == FragStep("cut", fragCut(curFrag, from, to), fragMerging)

ReplaceChild(index, node) ==
  FragStep("replaceChild", replaceChild(curFrag, index, node), FALSE)

AddToStart(node) == FragStep("addToStart", addToStart(curFrag, node), FALSE)

AddToEnd(node) == FragStep("addToEnd", addToEnd(curFrag, node), FALSE)

FromJSON(array) ==
  FragStep("fromJSON",
           Fragment_fromJSON([i \in 1..Len(array) |-> nodeToJSON(array[i])]), FALSE)

\* Node.replace with a closed slice, in a node that holds the fragment
FragParent ==
  Node(IF \A i \in 1..Len(curFrag.content) : isInline(curFrag.content[i].type)
       THEN "paragraph" ELSE "doc",
       curFrag, Mark_none)

Replace(from, to, array) ==
  \E result \in {nodeReplace(FragParent, from, to, Slice(fromArray(array), 0, 0))} :
    /\ result.err = ""
    /\ FragStep("replace", result.val.content, fragMerging)

\* frag.cut(a, b).cut(a2, b2) beside frag.cut(a + a2, a + b2), in the fragment
\* and in a node that holds it.  shift and inner are what the first and the
\* second cut kept beyond the b - a and b2 - a2 they were asked for, dropped
\* is what the first cut removed, and inRange says whether a + b2 is a
\* position of the fragment at all.
CutTwice(a, b, a2, b2) ==
  \E first \in {fragCut(curFrag, a, b)} :
    /\ a2 <= b2 /\ b2 <= first.size
    /\ \E second \in {fragCut(first, a2, b2)} :
         /\ curFrag' = second
         /\ curCut' =
              [dropped |-> curFrag.size - first.size,
               shift |-> first.size - (b - a),
               inner |-> second.size - (b2 - a2),
               inRange |-> a + b2 <= curFrag.size,
               same |->
                 /\ a + b2 <= curFrag.size
                 /\ fragEq(second, fragCut(curFrag, a + a2, a + b2))
                 /\ nodeEq(nodeCut(nodeCut(FragParent, a, b), a2, b2),
                           nodeCut(FragParent, a + a2, a + b2))]
    /\ fragMerging' = fragMerging
    /\ lastOp' = "cutTwice"
    /\ UNCHANGED <<cacheVars, excluded, markVars, docVars>>

NextFrag ==
  \/ \E array \in PoolArrays : FromArray(array)
  \/ \E node \in PoolNodes : FromNode(node)
  \/ \E array \in PoolArrays : AppendFragment(array)
  \/ \E from \in 0..curFrag.size : \E to \in from..curFrag.size : Cut(from, to)
  \/ \E index \in 0..(childCount(curFrag) - 1) : \E node \in PoolNodes :
       ReplaceChild(index, node)
  \/ \E node \in PoolNodes : AddToStart(node)
  \/ \E node \in PoolNodes : AddToEnd(node)
  \/ \E array \in PoolArrays : FromJSON(array)
  \/ \E from \in 0..curFrag.size : \E to \in from..curFrag.size :
       \E array \in SliceArrays : Replace(from, to, array)
  \/ \E a \in 0..curFrag.size : \E b \in a..curFrag.size :
       \E a2 \in 0..MaxFragSize : \E b2 \in a2..MaxFragSize : CutTwice(a, b, a2, b2)

SpecFrag == InitFrag /\ [][NextFrag]_vars

\* The cached size of a fragment, and of every fragment below it, is the
\* sum of the node sizes of its children.
RECURSIVE SizeIsSum(_)
SizeIsSum(f) ==
  /\ f.size = SumNodeSize(f.content, 1)
  /\ \A i \in 1..Len(f.content) : SizeIsSum(f.content[i].content)

\* No two adjacent children of the fragment, or of a fragment below it, are
\* text nodes of the same markup.
RECURSIVE NoAdjacentSameText(_)
NoAdjacentSameText(f) ==
  /\ \A i \in 1..(Len(f.content) - 1) :
       ~(isText(f.content[i].type) /\ isText(f.content[i + 1].type)
           /\ sameMarkup(f.content[i], f.content[i + 1]))
  /\ \A i \in 1..Len(f.content) : NoAdjacentSameText(f.content[i].content)

(***************************************************************************)
(* C5: every fragment built by Fragment.from/fromArray, append, cut,       *)
(* replaceChild, addToStart and addToEnd has a cached size equal to the    *)
(* sum of the node sizes of its children.                                  *)
(***************************************************************************)
C5_SizeIsSum == SizeIsSum(curFrag)

\* replaceChild put a node of another size into a fragment of several children.
C5_Witness ==
  /\ lastOp = "replaceChild"
  /\ childCount(curFrag) = 2
  /\ curFrag.size = 3
  /\ \E i \in 1..Len(curFrag.content) : ~isLeaf(curFrag.content[i].type)

(***************************************************************************)
(* C6 as stated: whatever operation built it (fromArray, append, cut,      *)
(* replaceChild, addToStart, addToEnd, fromJSON, replace), a fragment has  *)
(* no two adjacent text children of the same markup.                       *)
(***************************************************************************)
C6_AlwaysMerged == NoAdjacentSameText(curFrag)

(***************************************************************************)
(* C6: a fragment built only by Fragment.from/fromArray, append, cut and   *)
(* replace has no two adjacent text children of the same markup;           *)
(* replaceChild, addToStart, addToEnd and fromJSON place nodes as given.   *)
(***************************************************************************)
C6_MergedByMergingOps == fragMerging => NoAdjacentSameText(curFrag)

\* append or replace joined two text nodes into one of two characters.
C6_Witness ==
  /\ fragMerging
  /\ lastOp \in {"append", "replace"}
  /\ \E i \in 1..Len(curFrag.content) :
       isText(curFrag.content[i].type) /\ Len(curFrag.content[i].text) = 2

(***************************************************************************)
(* C7 as stated: for all bounds, D.cut(a, b).cut(a2, b2) is eq to          *)
(* D.cut(a + a2, a + b2), also when a cut lands inside a non-text child.   *)
(* It is stated here for the bounds at which a + b2 is still a position of *)
(* D, where both sides are defined.                                        *)
(***************************************************************************)
C7_CutOfCut == (lastOp = "cutTwice" /\ curCut.inRange) => curCut.same

(***************************************************************************)
(* C7: D.cut(a, b).cut(a2, b2) is eq to D.cut(a + a2, a + b2) whenever the *)
(* first cut does not land inside a non-text child, that is, whenever      *)
(* D.cut(a, b) has size b - a; the second cut may land anywhere.           *)
(***************************************************************************)
C7_CutOfExactCut == (lastOp = "cutTwice" /\ curCut.shift = 0) => curCut.same

\* A cut that dropped a child was cut again, inside a non-text child.
C7_Witness ==
  /\ lastOp = "cutTwice"
  /\ curCut.shift = 0
  /\ curCut.inner > 0
  /\ curCut.same
  /\ curCut.dropped > 0
  /\ childCount(curFrag) = 1

\* The fragment matches the content expression of the type up to a valid end.
MatchValidEnd(type, frag) ==
  LET result == matchFragment(contentMatch(type), frag, 0, childCount(frag))
  IN  result # NullMatch /\ validEnd(result)

(***************************************************************************)
(* C14 as claimed: for every node type and fragment, validContent is true  *)
(* if and only if matchFragment returns a match whose validEnd is true.    *)
(***************************************************************************)
C14_ValidContentIffMatch ==
  \A type \in NodeTypes : validContent(type, curFrag) <=> MatchValidEnd(type, curFrag)

(***************************************************************************)
(* C14 amended: for every node type and fragment, validContent is true if  *)
(* and only if matchFragment returns a match whose validEnd is true and    *)
(* the type allows every mark of every child: its mark set is null or the  *)
(* children carry no marks (the mark set of the other types is empty).     *)
(***************************************************************************)
C14_ValidContentIffMatchAndMarks ==
  \A type \in NodeTypes :
    validContent(type, curFrag) <=>
      /\ MatchValidEnd(type, curFrag)
      /\ \A i \in 1..Len(curFrag.content) :
           markSetIsNull(type) \/ curFrag.content[i].marks = Mark_none

\* A fragment of blocks, one of them marked, matches the content of doc but
\* is not valid content for it, while marked text is valid in a paragraph.
C14_Witness ==
  \/ /\ MatchValidEnd("doc", curFrag)
     /\ childCount(curFrag) = 2
     /\ \E i \in 1..Len(curFrag.content) : curFrag.content[i].marks # Mark_none
     /\ ~validContent("doc", curFrag)
  \/ /\ MatchValidEnd("paragraph", curFrag)
     /\ \E i \in 1..Len(curFrag.content) : curFrag.content[i].marks # Mark_none
     /\ validContent("paragraph", curFrag)

(***************************************************************************)
(* Spec: a document is drawn from the valid documents of content size at   *)
(* most MaxDocSize over a small pool of inline contents (and two invalid   *)
(* ones); resolve, slice and replace are then called on it, each call      *)
(* leaving its arguments and its outcome in the state until it returns.    *)
(***************************************************************************)
\* The greatest content size of a document.
MaxDocSize == 7

Paragraph(content) == Node("paragraph", content, Mark_none)

Blockquote(content) == Node("blockquote", content, Mark_none)

Doc(content) == Node("doc", content, Mark_none)

Image == Node("image", Fragment_empty, Mark_none)

Em == <<[type |-> "em", attrs |-> NoAttrs]>>

\* Inline contents: the last one holds two text nodes of one markup, as
\* Fragment.fromJSON or addToEnd build it.
InlinePool ==
  { Fragment_empty,
    fromArray(<<TextNode(<<97>>, Mark_none)>>),
    fromArray(<<TextNode(<<97>>, Mark_none), TextNode(<<98>>, Mark_none)>>),
    fromArray(<<TextNode(<<97>>, Mark_none), TextNode(<<98>>, Em)>>),
    fromArray(<<TextNode(<<97>>, Mark_none), Image>>),
    Fragment(<<TextNode(<<97>>, Mark_none), TextNode(<<98>>, Mark_none)>>) }

RECURSIVE Blocks(_)
RECURSIVE BlockSeqs(_)
\* The block nodes of node size at most n
Blocks(n) ==
  IF n < 2 THEN {}
  ELSE {Paragraph(inl) : inl \in {f \in InlinePool : f.size <= n - 2}} \cup
       {Blockquote(Fragment(seq)) : seq \in BlockSeqs(n - 2) \ {<<>>}}

\* The sequences of block nodes of total size at most n
BlockSeqs(n) ==
  {<<>>} \cup
  UNION {{<<b>> \o rest : rest \in BlockSeqs(n - nodeSize(b))} : b \in Blocks(n)}

InvalidDocs == {EmptyDoc, Doc(Fragment(<<Blockquote(Fragment_empty)>>))}

Docs == {Doc(Fragment(seq)) : seq \in BlockSeqs(MaxDocSize) \ {<<>>}} \cup InvalidDocs

\* The slices given to replace: closed, open on both sides, open on one
\* side, one whose complete node is invalid, and slices whose open nodes
\* are headings or a paragraph with a mark.
Slices ==
  LET x == TextNode(<<120>>, Mark_none)
      px == Paragraph(Fragment_fromNode(x))
      py == Paragraph(Fragment_fromNode(TextNode(<<121>>, Mark_none)))
      bq == Blockquote(Fragment_fromNode(px))
      hx == Node("heading", Fragment_fromNode(x), Mark_none)
      hy == Node("heading", Fragment_fromNode(TextNode(<<121>>, Mark_none)), Mark_none)
  IN  { Slice(Fragment_fromNode(hx), 1, 1),
        Slice(fromArray(<<hx, hy>>), 1, 1),
        Slice(Fragment_fromNode(Node("paragraph", Fragment_fromNode(x), Em)), 1, 1),
        Slice_empty,
        Slice(Fragment_fromNode(x), 0, 0),
        Slice(Fragment_fromNode(TextNode(<<120>>, Em)), 0, 0),
        Slice(Fragment_fromNode(Image), 0, 0),
        Slice(Fragment_fromNode(px), 0, 0),
        Slice(Fragment_fromNode(px), 1, 1),
        Slice(Fragment_fromNode(px), 1, 0),
        Slice(Fragment_fromNode(px), 0, 1),
        Slice(fromArray(<<px, py>>), 1, 1),
        Slice(Fragment_fromNode(bq), 0, 0),
        Slice(Fragment_fromNode(bq), 1, 1),
        Slice(Fragment_fromNode(bq), 2, 2),
        Slice(fromArray(<<bq, py>>), 2, 1),
        Slice(Fragment_fromNode(Blockquote(Fragment_empty)), 0, 0) }

Init ==
  /\ excluded = DefaultExcluded
  /\ markSet = Mark_none
  /\ prevSet = Mark_none
  /\ lastMark = [type |-> "em", attrs |-> NoAttrs]
  /\ lastOp = "init"
  /\ curFrag = Fragment_empty
  /\ fragMerging = TRUE
  /\ curCut = NoCut
  /\ curDoc \in Docs
  /\ curArgs = NoArgs
  /\ curResult = NoResult
  /\ resolveCache = <<>>
  /\ resolveCachePos = 0
  /\ cacheLog = NoLog

Idle == curResult.err = "none"

DocCall(op, args, result) ==
  /\ lastOp' = op
  /\ curArgs' = args
  /\ curResult' = result
  /\ UNCHANGED <<cacheVars, excluded, markVars, fragVars, curDoc>>

\* ResolvedPos.resolve(doc, pos)
DocResolve(pos) ==
  DocCall("resolve", [from |-> pos, to |-> pos, slice |-> Slice_empty],
          resolve(curDoc, pos))

\* doc.slice(from, to, includeParents)
DocSlice(from, to, includeParents) ==
  DocCall(IF includeParents THEN "sliceParents" ELSE "slice",
          [from |-> from, to |-> to, slice |-> Slice_empty],
          Ok(nodeSlice(curDoc, from, to, includeParents)))

\* doc.replace(from, to, slice)
DocReplace(from, to, slice) ==
  DocCall("replace", [from |-> from, to |-> to, slice |-> slice],
          nodeReplace(curDoc, from, to, slice))

\* doc.replace(from, to, doc.slice(from, to))
DocSliceReplace(from, to) ==
  \E slice \in {nodeSlice(curDoc, from, to, FALSE)} :
    DocCall("sliceReplace", [from |-> from, to |-> to, slice |-> slice],
            nodeReplace(curDoc, from, to, slice))

\* The call returns.
DocReturn ==
  /\ ~Idle
  /\ lastOp' = "return"
  /\ curArgs' = NoArgs
  /\ curResult' = NoResult
  /\ UNCHANGED <<cacheVars, excluded, markVars, fragVars, curDoc>>

Next ==
  \/ Idle /\ \E pos \in (0 - 1)..(curDoc.content.size + 1) : DocResolve(pos)
  \/ Idle /\ \E from \in 0..curDoc.content.size : \E to \in from..curDoc.content.size :
       \E includeParents \in BOOLEAN : DocSlice(from, to, includeParents)
  \/ Idle /\ \E from \in 0..curDoc.content.size : \E to \in from..curDoc.content.size :
       \E slice \in Slices : DocReplace(from, to, slice)
  \/ Idle /\ \E from \in 0..curDoc.content.size : \E to \in from..curDoc.content.size :
       DocSliceReplace(from, to)
  \/ DocReturn

Spec == Init /\ [][Next]_vars

\* The nodes of a slice that are not open, that is, not on its open left or
\* right spine, pass check().
RECURSIVE CompleteNodesValid(_, _, _)
CompleteNodesValid(frag, openStart, openEnd) ==
  \A i \in 1..Len(frag.content) :
    LET c == frag.content[i]
        onLeft == i = 1 /\ openStart > 0
        onRight == i = Len(frag.content) /\ openEnd > 0
    IN  IF ~onLeft /\ ~onRight THEN check(c)
        ELSE CompleteNodesValid(c.content,
                                IF onLeft THEN openStart - 1 ELSE 0,
                                IF onRight THEN openEnd - 1 ELSE 0)

\* replace, given a document and a slice that have no two adjacent text
\* nodes of one markup, returns a document that has none.
ReplaceKeepsMerged ==
  ( /\ lastOp \in {"replace", "sliceReplace"}
    /\ NoAdjacentSameText(curDoc.content)
    /\ NoAdjacentSameText(curArgs.slice.content)
    /\ curResult.err = "" )
  => NoAdjacentSameText(curResult.val.content)

InsertedDeeper == "Inserted content deeper than insertion position"

InconsistentDepths == "Inconsistent open depths"

(***************************************************************************)
(* C1: for a document that passes check() and a slice whose complete nodes *)
(* are valid, replace either raises ReplaceError or returns a document     *)
(* that passes check().                                                    *)
(***************************************************************************)
C1_ReplacePreservesValidity ==
  ( /\ lastOp \in {"replace", "sliceReplace"}
    /\ check(curDoc)
    /\ CompleteNodesValid(curArgs.slice.content, curArgs.slice.openStart,
                          curArgs.slice.openEnd) )
  => (curResult.err # "" \/ check(curResult.val))

\* A slice open on both sides replaced a non-empty range that starts deeper
\* than it ends, and replace returned.
C1_Witness ==
  /\ lastOp = "replace"
  /\ check(curDoc)
  /\ curArgs.slice.openStart > 0
  /\ curArgs.slice.openEnd > 0
  /\ resolve(curDoc, curArgs.from).depth > resolve(curDoc, curArgs.to).depth
  /\ curResult.err = ""

(***************************************************************************)
(* C2 as stated: for every document that passes check() and all            *)
(* from <= to, D.replace(from, to, D.slice(from, to)) returns a document   *)
(* eq to D.                                                                *)
(***************************************************************************)
C2_SliceReplaceIdentity ==
  (lastOp = "sliceReplace" /\ check(curDoc))
  => (curResult.err = "" /\ nodeEq(curResult.val, curDoc))

(***************************************************************************)
(* C2: for every document that passes check() and has no two adjacent text *)
(* nodes of the same markup, and all from <= to,                           *)
(* D.replace(from, to, D.slice(from, to)) returns a document eq to D.      *)
(***************************************************************************)
C2_SliceReplaceIdentityMerged ==
  (lastOp = "sliceReplace" /\ check(curDoc) /\ NoAdjacentSameText(curDoc.content))
  => (curResult.err = "" /\ nodeEq(curResult.val, curDoc))

\* A slice open to different depths on its two sides was put back.
C2_Witness ==
  /\ lastOp = "sliceReplace"
  /\ check(curDoc)
  /\ NoAdjacentSameText(curDoc.content)
  /\ curArgs.slice.openStart = 2
  /\ curArgs.slice.openEnd = 1
  /\ curResult.err = ""
  /\ nodeEq(curResult.val, curDoc)

(***************************************************************************)
(* C3: replace raises ReplaceError at once when slice.openStart is greater *)
(* than $from.depth or when $from.depth - openStart differs from           *)
(* $to.depth - openEnd, and raises neither of these two errors otherwise.  *)
(***************************************************************************)
C3_ReplacePreconditions ==
  lastOp = "replace" =>
    LET Sfrom == resolve(curDoc, curArgs.from)
        Sto == resolve(curDoc, curArgs.to)
        deeper == curArgs.slice.openStart > Sfrom.depth
        inconsistent ==
          Sfrom.depth - curArgs.slice.openStart # Sto.depth - curArgs.slice.openEnd
    IN  /\ deeper => curResult.err = InsertedDeeper
        /\ (~deeper /\ inconsistent) => curResult.err = InconsistentDepths
        /\ curResult.err \in {InsertedDeeper, InconsistentDepths}
             => (deeper \/ inconsistent)

\* replace refused a slice whose open depths do not meet at one depth.
C3_Witness ==
  /\ lastOp = "replace"
  /\ curArgs.slice.openStart <= resolve(curDoc, curArgs.from).depth
  /\ curResult.err = InconsistentDepths

(***************************************************************************)
(* C4: for every position p with 0 <= p <= D.content.size, resolve(D, p)   *)
(* succeeds with pos = p, depth >= 0 and start(depth) + parentOffset = p.  *)
(***************************************************************************)
C4_ResolveIdentities ==
  (lastOp = "resolve" /\ curArgs.from >= 0 /\ curArgs.from <= curDoc.content.size)
  => /\ curResult.err = ""
     /\ curResult.pos = curArgs.from
     /\ curResult.depth >= 0
     /\ posStart(curResult, curResult.depth) + curResult.parentOffset = curArgs.from

\* A position two levels deep, past the start of its parent, was resolved.
C4_Witness ==
  /\ lastOp = "resolve"
  /\ curResult.err = ""
  /\ curResult.depth = 2
  /\ curResult.parentOffset > 0

\* The fragment has at least n nested non-leaf nodes along its first (or
\* its last) children.
RECURSIVE OpenAlong(_, _, _)
OpenAlong(frag, n, atStart) ==
  \/ n = 0
  \/ /\ childCount(frag) > 0
     /\ LET c == IF atStart THEN firstChild(frag) ELSE lastChild(frag)
        IN  ~isLeaf(c.type) /\ OpenAlong(c.content, n - 1, atStart)

(***************************************************************************)
(* C20: for positions from < to, slice returns a slice with openStart =    *)
(* $from.depth - d and openEnd = $to.depth - d, d being the depth of the   *)
(* deepest node around $from (below the top) whose content holds to, and   *)
(* 0 when there is none or with includeParents; its content has at least   *)
(* openStart nested non-leaf nodes along its first children and at least   *)
(* openEnd along its last children.  For from = to it returns the empty    *)
(* slice.                                                                  *)
(***************************************************************************)
C20_SliceOpenDepths ==
  lastOp \in {"slice", "sliceParents"} =>
    LET from == resolve(curDoc, curArgs.from)
        to == resolve(curDoc, curArgs.to)
        around == {k \in 1..from.depth :
                     posStart(from, k) <= curArgs.to /\ curArgs.to <= posEnd(from, k)}
        d == IF lastOp = "sliceParents" \/ around = {} THEN 0
             ELSE CHOOSE k \in around : \A j \in around : j <= k
        slice == curResult.val
    IN  IF curArgs.from = curArgs.to THEN slice = Slice_empty
        ELSE /\ slice.openStart = from.depth - d
             /\ slice.openEnd = to.depth - d
             /\ slice.openStart >= 0
             /\ slice.openEnd >= 0
             /\ OpenAlong(slice.content, slice.openStart, TRUE)
             /\ OpenAlong(slice.content, slice.openEnd, FALSE)

\* A slice from inside a paragraph of a blockquote to a place outside the
\* blockquote is open two levels at its start and closed at its end.
C20_Witness ==
  /\ lastOp = "slice"
  /\ curArgs.from < curArgs.to
  /\ curResult.val.openStart = 2
  /\ curResult.val.openEnd = 0
  /\ childCount(curResult.val.content) = 2

\* The size of a node and of an array of nodes, counted from the text and
\* the tokens, without the sizes that fragments keep.
RECURSIVE CountedNodeSize(_)
RECURSIVE CountedSize(_, _)
CountedNodeSize(node) ==
  IF isText(node.type) THEN Len(node.text)
  ELSE IF isLeaf(node.type) THEN 1
  ELSE 2 + CountedSize(node.content.content, 1)

CountedSize(content, i) ==
  IF i > Len(content) THEN 0
  ELSE CountedNodeSize(content[i]) + CountedSize(content, i + 1)

(***************************************************************************)
(* C28: when replace returns a document, the size of its content is the    *)
(* size of the content it was called on, less to - from, plus the size of  *)
(* the slice's content less its open depths.                               *)
(***************************************************************************)
C28_ReplaceSize ==
  (lastOp = "replace" /\ curResult.err = "") =>
    LET expected == curDoc.content.size - (curArgs.to - curArgs.from)
                      + (curArgs.slice.content.size - curArgs.slice.openStart
                           - curArgs.slice.openEnd)
    IN  /\ curResult.val.content.size = expected
        /\ CountedSize(curResult.val.content.content, 1) = expected
        /\ sliceSize(curArgs.slice) = curArgs.slice.content.size
                                        - curArgs.slice.openStart - curArgs.slice.openEnd

\* A slice that is open on both sides and holds two nodes replaced a range
\* that is not empty, and the document grew.
C28_Witness ==
  /\ lastOp = "replace"
  /\ curResult.err = ""
  /\ curArgs.from < curArgs.to
  /\ curArgs.slice.openStart > 0
  /\ curArgs.slice.openEnd > 0
  /\ childCount(curArgs.slice.content) = 2
  /\ curResult.val.content.size > curDoc.content.size

C30_SliceSize ==
  lastOp \in {"slice", "sliceParents"} =>
    LET slice == curResult.val
    IN  /\ sliceSize(slice) = curArgs.to - curArgs.from
        /\ CountedSize(slice.content.content, 1) - slice.openStart - slice.openEnd
             = curArgs.to - curArgs.from

\* A slice with includeParents from inside a paragraph of a blockquote to
\* the end of that paragraph.
C30_Witness ==
  /\ lastOp = "sliceParents"
  /\ curArgs.from < curArgs.to
  /\ curResult.val.openStart = 2
  /\ curResult.val.openEnd = 2
  /\ curResult.val.content.size = curArgs.to - curArgs.from + 4

(***************************************************************************)
(* SpecPos: marks, marksAcross and blockRange are called on the resolved   *)
(* positions of a document: one of the documents of Spec, or a paragraph   *)
(* of marked inline content, alone or in a blockquote.                     *)
(***************************************************************************)
Link(href) == [type |-> "link", attrs |-> href]

Code == [type |-> "code", attrs |-> NoAttrs]

MarkedInlinePool ==
  LET em == Em[1]
  IN  { fromArray(<<TextNode(<<97, 98>>, Em)>>),
        fromArray(<<TextNode(<<97>>, Em), TextNode(<<98>>, Mark_none)>>),
        fromArray(<<TextNode(<<97>>, <<em, Link(0)>>), TextNode(<<98>>, Mark_none)>>),
        fromArray(<<TextNode(<<97>>, <<Link(0)>>), TextNode(<<98>>, <<em, Link(0)>>)>>),
        fromArray(<<TextNode(<<97>>, <<Link(0)>>), TextNode(<<98>>, <<Link(MaxHref)>>)>>),
        fromArray(<<TextNode(<<97>>, <<Link(0), Code>>), TextNode(<<98>>, <<Code>>)>>),
        fromArray(<<TextNode(<<97>>, <<Link(0), Code>>)>>),
        fromArray(<<Node("image", Fragment_empty, <<Link(0)>>), TextNode(<<98>>, Em)>>) }

\* A document whose content is text: doc holds inline content here, which
\* its content expression does not allow.
TextDoc == Doc(fromArray(<<TextNode(<<97>>, <<Link(0)>>), TextNode(<<98>>, Mark_none)>>))

PosDocs ==
  Docs \cup {TextDoc}
    \cup {Doc(Fragment(<<Paragraph(inl)>>)) : inl \in MarkedInlinePool}
    \cup {Doc(Fragment(<<Blockquote(Fragment(<<Paragraph(inl)>>))>>)) : inl \in MarkedInlinePool}

InitPos ==
  /\ excluded = DefaultExcluded
  /\ markSet = Mark_none
  /\ prevSet = Mark_none
  /\ lastMark = [type |-> "em", attrs |-> NoAttrs]
  /\ lastOp = "init"
  /\ curFrag = Fragment_empty
  /\ fragMerging = TRUE
  /\ curCut = NoCut
  /\ curDoc \in PosDocs
  /\ curArgs = NoArgs
  /\ curResult = NoResult
  /\ resolveCache = <<>>
  /\ resolveCachePos = 0
  /\ cacheLog = NoLog

\* doc.resolve(pos).marks()
PosMarks(pos) ==
  DocCall("marks", [from |-> pos, to |-> pos, slice |-> Slice_empty],
          Ok(posMarks(resolve(curDoc, pos))))

\* doc.resolve(pos).marksAcross(doc.resolve(end))
PosMarksAcross(pos, end) ==
  DocCall("marksAcross", [from |-> pos, to |-> end, slice |-> Slice_empty],
          Ok(marksAcross(resolve(curDoc, pos), resolve(curDoc, end))))

\* doc.resolve(a).blockRange(doc.resolve(b), pred)
PosBlockRange(a, b, name) ==
  DocCall("blockRange", [from |-> a, to |-> b, slice |-> Slice_empty, pred |-> name],
          Ok(blockRange(resolve(curDoc, a), resolve(curDoc, b), name)))

NextPos ==
  \/ Idle /\ \E pos \in 0..curDoc.content.size : PosMarks(pos)
  \/ Idle /\ \E pos \in 0..curDoc.content.size : \E end \in 0..curDoc.content.size :
       PosMarksAcross(pos, end)
  \/ Idle /\ \E a \in 0..curDoc.content.size : \E b \in 0..curDoc.content.size :
       \E name \in Preds : PosBlockRange(a, b, name)
  \/ DocReturn

SpecPos == InitPos /\ [][NextPos]_vars

\* The marks of a set that are inclusive or are in the marks of the node on
\* the other side; hasOther says whether there is such a node.
KeptMarks(set, hasOther, otherMarks) ==
  SelectSeq(set, LAMBDA m :
    \/ ~inclusiveIsFalse(m.type)
    \/ hasOther /\ \E k \in 1..Len(otherMarks) : MarkEq(m, otherMarks[k]))

(***************************************************************************)
(* C15: marks() is empty in an empty parent; inside a text node it is the  *)
(* marks of that text node; otherwise it is the marks of the node before   *)
(* the position (of the node after it when there is none before) without   *)
(* the marks whose type has inclusive false and that are not in the marks  *)
(* of the node on the other side, if there is one.  So an inclusive mark   *)
(* is active directly after its run and at the start of the textblock,     *)
(* and no mark is active directly before its run when content without it   *)
(* precedes.                                                               *)
(***************************************************************************)
C15_MarksRule ==
  lastOp = "marks" =>
    LET rp == resolve(curDoc, curArgs.from)
        kids == parent(rp).content.content
        index == posIndex(rp, rp.depth)
        got == curResult.val
    IN  IF parent(rp).content.size = 0 THEN got = Mark_none
        ELSE IF textOffset(rp) # 0 THEN got = kids[index + 1].marks
        ELSE IF index = 0 THEN
          /\ got = KeptMarks(kids[1].marks, FALSE, Mark_none)
          /\ \A k \in 1..Len(kids[1].marks) :
               ~inclusiveIsFalse(kids[1].marks[k].type) => isInSet(kids[1].marks[k], got)
        ELSE IF index = Len(kids) THEN
          /\ got = KeptMarks(kids[index].marks, FALSE, Mark_none)
          /\ \A k \in 1..Len(kids[index].marks) :
               ~inclusiveIsFalse(kids[index].marks[k].type) => isInSet(kids[index].marks[k], got)
        ELSE
          /\ got = KeptMarks(kids[index].marks, TRUE, kids[index + 1].marks)
          /\ \A k \in 1..Len(kids[index].marks) :
               ~inclusiveIsFalse(kids[index].marks[k].type) => isInSet(kids[index].marks[k], got)
          /\ \A k \in 1..Len(kids[index + 1].marks) :
               ~isInSet(kids[index + 1].marks[k], kids[index].marks)
                 => ~isInSet(kids[index + 1].marks[k], got)

\* Between em-and-link text and unmarked text, marks() is em alone.
C15_Witness ==
  /\ lastOp = "marks"
  /\ LET rp == resolve(curDoc, curArgs.from)
         kids == parent(rp).content.content
         index == posIndex(rp, rp.depth)
     IN  /\ textOffset(rp) = 0
         /\ index > 0
         /\ index < Len(kids)
         /\ kids[index].marks = <<Em[1], Link(0)>>
         /\ kids[index + 1].marks = Mark_none
  /\ curResult.val = Em

SameNodeAt(first, second, k) ==
  /\ k <= first.depth
  /\ k <= second.depth
  /\ \A j \in 0..(k - 1) : posIndex(first, j) = posIndex(second, j)
  /\ posNode(first, k) = posNode(second, k)

\* The predicate accepts the node; without a predicate every node does.
Accepted(name, node) == name = "none" \/ pred(name, node)

C18_RangeInvariant ==
  (lastOp = "blockRange" /\ ~curResult.val.null) =>
    LET range == curResult.val
    IN  /\ range.depth >= 0
        /\ SameNodeAt(range.from, range.to, range.depth)
        /\ range.from.pos <= range.to.pos
        /\ rangeStart(range) <= rangeEnd(range)
        /\ rangeStartIndex(range) <= rangeEndIndex(range)

\* Called with the later position first, blockRange returned a range below
\* the top level that holds something.
C18_Witness ==
  /\ lastOp = "blockRange"
  /\ curArgs.to < curArgs.from
  /\ ~curResult.val.null
  /\ curResult.val.depth >= 1
  /\ curResult.val.from.pos = curArgs.to
  /\ rangeStart(curResult.val) < rangeEnd(curResult.val)

(***************************************************************************)
(* The cache of resolved positions.  Node.resolve goes through             *)
(* resolveCached, which keeps the last resolveCacheSize positions it       *)
(* resolved and compares documents by identity.  A document object is a    *)
(* number here and DocAt gives the node it is; two of the three objects    *)
(* are equal nodes.  A cached position is kept with the object it was      *)
(* resolved in (its doc, path[0]).                                         *)
(***************************************************************************)
resolveCacheSize == 12

DocObjects == 1..3

DocAt(doc) ==
  LET a == TextNode(<<97>>, Mark_none)
  IN  IF doc = 3
      THEN Doc(Fragment(<<Paragraph(Fragment_empty), Paragraph(Fragment_fromNode(a))>>))
      ELSE Doc(Fragment(<<Paragraph(Fragment_fromNode(a)), Paragraph(Fragment_empty)>>))

\* A variant of the lookup that compares the documents as nodes.
RECURSIVE resolveCachedLoopByValue(_, _, _, _)
resolveCachedLoopByValue(cache, doc, pos, i) ==
  IF i > Len(cache) THEN 0
  ELSE IF cache[i].rp.pos = pos /\ DocAt(cache[i].doc) = DocAt(doc) THEN i
  ELSE resolveCachedLoopByValue(cache, doc, pos, i + 1)

\* The lookup of resolveCached from entry i on (counted from 1): the place
\* of the entry it returns, 0 when there is none.
RECURSIVE resolveCachedLoop(_, _, _, _)
resolveCachedLoop(cache, doc, pos, i) ==
  IF i > Len(cache) THEN 0
  ELSE IF cache[i].rp.pos = pos /\ cache[i].doc = doc THEN i
  ELSE resolveCachedLoop(cache, doc, pos, i + 1)

\* A variant of resolveCached that moves the cursor before it resolves, so
\* that a call that raises has moved it too.
resolveCachedCursorFirst(cache, cachePos, created, doc, pos) ==
  LET found == resolveCachedLoop(cache, doc, pos, 1)
      result == [doc |-> doc, rp |-> resolve(DocAt(doc), pos), id |-> created + 1]
  IN  IF found # 0
      THEN [err |-> "", val |-> cache[found], hit |-> TRUE,
            cache |-> cache, cachePos |-> cachePos]
      ELSE IF result.rp.err # ""
      THEN [err |-> result.rp.err, val |-> result, hit |-> FALSE,
            cache |-> cache, cachePos |-> (cachePos + 1) % resolveCacheSize]
      ELSE [err |-> "", val |-> result, hit |-> FALSE,
            cache |-> IF cachePos = Len(cache) THEN Append(cache, result)
                      ELSE [cache EXCEPT ![cachePos + 1] = result],
            cachePos |-> (cachePos + 1) % resolveCacheSize]

\* A variant of resolveCached whose cursor does not wrap around.
resolveCachedNoWrap(cache, cachePos, created, doc, pos) ==
  LET found == resolveCachedLoop(cache, doc, pos, 1)
      result == [doc |-> doc, rp |-> resolve(DocAt(doc), pos), id |-> created + 1]
  IN  IF found # 0
      THEN [err |-> "", val |-> cache[found], hit |-> TRUE,
            cache |-> cache, cachePos |-> cachePos]
      ELSE IF result.rp.err # ""
      THEN [err |-> result.rp.err, val |-> result, hit |-> FALSE,
            cache |-> cache, cachePos |-> cachePos]
      ELSE [err |-> "", val |-> result, hit |-> FALSE,
            cache |-> IF cachePos = Len(cache) THEN Append(cache, result)
                      ELSE [cache EXCEPT ![cachePos + 1] = result],
            cachePos |-> cachePos + 1]

\* A variant of resolveCached in which a hit moves the cursor too.
resolveCachedHitAdvances(cache, cachePos, created, doc, pos) ==
  LET found == resolveCachedLoop(cache, doc, pos, 1)
      result == [doc |-> doc, rp |-> resolve(DocAt(doc), pos), id |-> created + 1]
  IN  IF found # 0
      THEN [err |-> "", val |-> cache[found], hit |-> TRUE,
            cache |-> cache, cachePos |-> (cachePos + 1) % resolveCacheSize]
      ELSE IF result.rp.err # ""
      THEN [err |-> result.rp.err, val |-> result, hit |-> FALSE,
            cache |-> cache, cachePos |-> cachePos]
      ELSE [err |-> "", val |-> result, hit |-> FALSE,
            cache |-> IF cachePos = Len(cache) THEN Append(cache, result)
                      ELSE [cache EXCEPT ![cachePos + 1] = result],
            cachePos |-> (cachePos + 1) % resolveCacheSize]

\* ResolvedPos.resolveCached(doc, pos): what it returns or raises, and the
\* cache it leaves.  A resolved position is an object: the one that a miss
\* creates is told from the others by id, their number so far.
resolveCached(cache, cachePos, created, doc, pos) ==
  LET found == resolveCachedLoop(cache, doc, pos, 1)
      result == [doc |-> doc, rp |-> resolve(DocAt(doc), pos), id |-> created + 1]
  IN  IF found # 0
      THEN [err |-> "", val |-> cache[found], hit |-> TRUE,
            cache |-> cache, cachePos |-> cachePos]
      ELSE IF result.rp.err # ""
      THEN [err |-> result.rp.err, val |-> result, hit |-> FALSE,
            cache |-> cache, cachePos |-> cachePos]
      ELSE [err |-> "", val |-> result, hit |-> FALSE,
            cache |-> IF cachePos = Len(cache) THEN Append(cache, result)
                      ELSE [cache EXCEPT ![cachePos + 1] = result],
            cachePos |-> (cachePos + 1) % resolveCacheSize]

(***************************************************************************)
(* SpecCache: positions of the three document objects are resolved with    *)
(* Node.resolve.  The keys (document, position) come into use in a fixed   *)
(* order, position by position; a call resolves the next key or any key    *)
(* that was resolved before.  The number of misses is bounded.             *)
(***************************************************************************)
\* The greatest number of calls that miss the cache.
MaxMisses == 18

NumKeys == Cardinality(DocObjects) * (DocAt(1).content.size + 1)

KeyAt(n) ==
  [doc |-> ((n - 1) % Cardinality(DocObjects)) + 1,
   pos |-> (n - 1) \div Cardinality(DocObjects)]

InitCache ==
  /\ excluded = DefaultExcluded
  /\ markSet = Mark_none
  /\ prevSet = Mark_none
  /\ lastMark = [type |-> "em", attrs |-> NoAttrs]
  /\ lastOp = "init"
  /\ curFrag = Fragment_empty
  /\ fragMerging = TRUE
  /\ curCut = NoCut
  /\ curDoc = EmptyDoc
  /\ curArgs = NoArgs
  /\ curResult = NoResult
  /\ resolveCache = <<>>
  /\ resolveCachePos = 0
  /\ cacheLog = NoLog

\* doc.resolve(pos)
NodeResolve(doc, pos, fresh) ==
  \E r \in {resolveCached(resolveCache, resolveCachePos, cacheLog.misses, doc, pos)} :
    /\ (r.err = "" /\ ~r.hit) => cacheLog.misses < MaxMisses
    /\ lastOp' = "resolveCached"
    /\ curArgs' = [from |-> pos, to |-> pos, slice |-> Slice_empty, doc |-> doc]
    /\ curResult' = [err |-> r.err, val |-> r.val, hit |-> r.hit]
    /\ resolveCache' = r.cache
    /\ resolveCachePos' = r.cachePos
    /\ cacheLog' = [seen |-> cacheLog.seen + (IF fresh THEN 1 ELSE 0),
                    misses |-> cacheLog.misses + (IF r.err = "" /\ ~r.hit THEN 1 ELSE 0)]
    /\ UNCHANGED <<excluded, markVars, fragVars, curDoc>>

\* The next key is resolved for the first time.
ResolveFresh ==
  /\ cacheLog.seen < NumKeys
  /\ NodeResolve(KeyAt(cacheLog.seen + 1).doc, KeyAt(cacheLog.seen + 1).pos, TRUE)

\* A key that was resolved before is resolved again.
ResolveAgain(n) == NodeResolve(KeyAt(n).doc, KeyAt(n).pos, FALSE)

\* A position outside the document is resolved.
ResolveOutOfRange(doc, pos) ==
  /\ pos < 0 \/ pos > DocAt(doc).content.size
  /\ NodeResolve(doc, pos, FALSE)

NextCache ==
  \/ ResolveFresh
  \/ \E n \in 1..cacheLog.seen : ResolveAgain(n)
  \/ \E doc \in DocObjects : \E pos \in {0 - 1, DocAt(doc).content.size + 1} :
       ResolveOutOfRange(doc, pos)

SpecCache == InitCache /\ [][NextCache]_vars

(***************************************************************************)
(* C19: after any sequence of Node.resolve calls, with hits and evictions, *)
(* doc.resolve(pos) returns a position whose root is that document object  *)
(* and that equals what ResolvedPos.resolve(doc, pos) returns (pos, path,  *)
(* depth and parentOffset); an entry cached for another document object or *)
(* another position is never returned.  The cache holds at most            *)
(* resolveCacheSize entries, each the resolution of its own key.           *)
(***************************************************************************)
C19_CacheTransparent ==
  /\ (lastOp = "resolveCached" /\ curResult.err = "") =>
       /\ curResult.val.doc = curArgs.doc
       /\ curResult.val.rp.pos = curArgs.from
       /\ curResult.val.rp = resolve(DocAt(curArgs.doc), curArgs.from)
  /\ (lastOp = "resolveCached" /\ curResult.err # "") =>
       resolve(DocAt(curArgs.doc), curArgs.from).err = curResult.err
  /\ Len(resolveCache) <= resolveCacheSize
  /\ \A i \in 1..Len(resolveCache) :
       resolveCache[i].rp = resolve(DocAt(resolveCache[i].doc), resolveCache[i].rp.pos)

\* After an eviction, a call hit the entry of its document although an
\* entry for the same position in an equal document of another identity
\* comes before it in the cache.
C19_Witness ==
  /\ lastOp = "resolveCached"
  /\ curResult.err = ""
  /\ curResult.hit
  /\ cacheLog.misses > resolveCacheSize
  /\ \E i, j \in 1..Len(resolveCache) :
       /\ i < j
       /\ resolveCache[j].doc = curArgs.doc
       /\ resolveCache[j].rp.pos = curArgs.from
       /\ resolveCache[i].doc # curArgs.doc
       /\ resolveCache[i].rp = resolveCache[j].rp

\* The call that was just made raised, hit the cache, or missed it.
CallRaised == lastOp' = "resolveCached" /\ curResult'.err # ""

CallHit == lastOp' = "resolveCached" /\ curResult'.err = "" /\ curResult'.hit

CallMissed == lastOp' = "resolveCached" /\ curResult'.err = "" /\ ~curResult'.hit

(***************************************************************************)
(* C24: resolving a position below 0 or above the size of the document's   *)
(* content through Node.resolve raises RangeError, positions in between    *)
(* do not, and a call that raises leaves the cache and its cursor as they  *)
(* were.                                                                   *)
(***************************************************************************)
C24_RangeErrorLeavesCache ==
  [][ /\ lastOp' = "resolveCached" =>
           (curResult'.err = "RangeError" <=>
              (curArgs'.from < 0 \/ curArgs'.from > DocAt(curArgs'.doc).content.size))
      /\ CallRaised =>
           /\ curResult'.err = "RangeError"
           /\ resolveCache' = resolveCache
           /\ resolveCachePos' = resolveCachePos ]_vars

\* A position past the end of a document was resolved when the cache was
\* full and its cursor had gone around.
C24_Witness ==
  /\ lastOp = "resolveCached"
  /\ curResult.err = "RangeError"
  /\ curArgs.from > DocAt(curArgs.doc).content.size
  /\ Len(resolveCache) = resolveCacheSize
  /\ cacheLog.misses > resolveCacheSize
  /\ resolveCachePos > 0

(***************************************************************************)
(* C26: the cache holds at most 12 entries, its cursor is in 0..11, and no *)
(* two entries have the same document object and position.                 *)
(***************************************************************************)
C26_CacheShape ==
  /\ Len(resolveCache) <= 12
  /\ resolveCachePos \in 0..11
  /\ \A i, j \in 1..Len(resolveCache) :
       (/\ resolveCache[i].doc = resolveCache[j].doc
        /\ resolveCache[i].rp.pos = resolveCache[j].rp.pos) => i = j

\* The cache is full, its cursor has gone around, and it holds the same
\* position of two document objects that are equal nodes.
C26_Witness ==
  /\ Len(resolveCache) = 12
  /\ cacheLog.misses > 12
  /\ resolveCachePos \in 1..11
  /\ \E i, j \in 1..Len(resolveCache) :
       /\ i # j
       /\ resolveCache[i].rp = resolveCache[j].rp
       /\ resolveCache[i].doc # resolveCache[j].doc

(***************************************************************************)
(* C27: a hit changes neither the cache nor the cursor and returns the     *)
(* object that the miss for its key created; a miss puts the object it     *)
(* creates at the cursor, over the oldest entry once the cache is full,    *)
(* and moves the cursor on by one; so the cache holds the objects of the   *)
(* last 12 misses, and an object leaves it with the 12th miss after its    *)
(* own.                                                                    *)
(***************************************************************************)
C27_FifoEviction ==
  /\ [](\A i \in 1..Len(resolveCache) :
          /\ resolveCache[i].id > cacheLog.misses - resolveCacheSize
          /\ resolveCache[i].id <= cacheLog.misses
          /\ i = ((resolveCache[i].id - 1) % resolveCacheSize) + 1)
  /\ [](Len(resolveCache) = Min(cacheLog.misses, resolveCacheSize))
  /\ [][ /\ CallHit =>
              /\ resolveCache' = resolveCache
              /\ resolveCachePos' = resolveCachePos
              /\ \E i \in 1..Len(resolveCache) : curResult'.val = resolveCache[i]
              /\ curResult'.val.doc = curArgs'.doc
              /\ curResult'.val.rp.pos = curArgs'.from
         /\ CallMissed =>
              /\ resolveCachePos' = (resolveCachePos + 1) % resolveCacheSize
              /\ Len(resolveCache') >= Len(resolveCache)
              /\ resolveCache'[resolveCachePos + 1] = curResult'.val
              /\ curResult'.val.id = cacheLog.misses + 1
              /\ \A i \in 1..Len(resolveCache) :
                   i # resolveCachePos + 1 => resolveCache'[i] = resolveCache[i]
              /\ Len(resolveCache) = resolveCacheSize =>
                   \A i \in 1..Len(resolveCache) :
                     resolveCache[resolveCachePos + 1].id <= resolveCache[i].id ]_vars

\* A call hit the object of the miss that is 11 misses back: the oldest
\* entry of a full cache whose cursor has gone around.
C27_Witness ==
  /\ lastOp = "resolveCached"
  /\ curResult.err = ""
  /\ curResult.hit
  /\ cacheLog.misses > resolveCacheSize
  /\ curResult.val.id = cacheLog.misses - resolveCacheSize + 1

(***************************************************************************)
(* SpecAllowed: NodeType.allowedMarks.  A node type is given as its        *)
(* markSet, the one field allowedMarks reads: null when the type allows    *)
(* every mark, otherwise the mark types that the schema gathered for it.   *)
(***************************************************************************)
NullMarkSet == [null |-> TRUE, types |-> {}]

GatheredMarkSet(types) == [null |-> FALSE, types |-> types]

\* The markSet of a node type of a schema, as the constructor of Schema
\* assigns it: null for marks "_" (and for inline content without a marks
\* expression), the named types otherwise, [] for "".
NodeMarkSets == {NullMarkSet} \cup {GatheredMarkSet(types) : types \in SUBSET MarkTypes}

\* The mark sets that addToSet builds under the default exclusion.
SortedMarkSets ==
  {set \in UNION {[1..n -> Marks] : n \in 0..Len(MarkNames)} :
     \A i \in 1..(Len(set) - 1) : rank(set[i].type) < rank(set[i + 1].type)}

\* allowsMarkType, of the node type with this markSet
markSetAllows(set, markType) == set.null \/ markType \in set.types

\* The loop of allowedMarks: copy is made at the first mark that is not
\* allowed, and takes every allowed mark from there on.
RECURSIVE allowedMarksLoop(_, _, _, _, _)
allowedMarksLoop(set, marks, i, made, copied) ==
  IF i >= Len(marks) THEN [copy |-> made, copied |-> copied]
  ELSE IF ~markSetAllows(set, marks[i + 1].type)
  THEN allowedMarksLoop(set, marks, i + 1,
                        IF copied THEN made ELSE SubSeq(marks, 1, i), TRUE)
  ELSE allowedMarksLoop(set, marks, i + 1,
                        IF copied THEN Append(made, marks[i + 1]) ELSE made, copied)

\* What allowedMarks returns: the array it was given (same), a new array, or
\* the value of Mark.empty.  Mark has no static property of that name
\* (Mark.none is the empty set), so that value is undefined.
allowedMarks(set, marks) ==
  IF set.null THEN [undefined |-> FALSE, same |-> TRUE, marks |-> marks]
  ELSE Bind(allowedMarksLoop(set, marks, 0, <<>>, FALSE), LAMBDA r :
         IF ~r.copied THEN [undefined |-> FALSE, same |-> TRUE, marks |-> marks]
         ELSE IF Len(r.copy) > 0
         THEN [undefined |-> FALSE, same |-> FALSE, marks |-> r.copy]
         ELSE [undefined |-> TRUE, same |-> FALSE, marks |-> Mark_none])

InitAllowed ==
  /\ excluded = DefaultExcluded
  /\ markSet \in SortedMarkSets
  /\ prevSet = Mark_none
  /\ lastMark = [type |-> "em", attrs |-> NoAttrs]
  /\ lastOp = "init"
  /\ curFrag = Fragment_empty
  /\ fragMerging = TRUE
  /\ curCut = NoCut
  /\ curDoc = EmptyDoc
  /\ curArgs = NoArgs
  /\ curResult = NoResult
  /\ resolveCache = <<>>
  /\ resolveCachePos = 0
  /\ cacheLog = NoLog

\* type.allowedMarks(markSet), for a node type with the mark set nodeMarks
AllowedMarks(nodeMarks) ==
  /\ lastOp' = "allowedMarks"
  /\ curArgs' = [from |-> 0, to |-> 0, slice |-> Slice_empty, markSet |-> nodeMarks]
  /\ curResult' = allowedMarks(nodeMarks, markSet)
  /\ UNCHANGED <<cacheVars, excluded, markVars, fragVars, curDoc>>

NextAllowed == \E nodeMarks \in NodeMarkSets : AllowedMarks(nodeMarks)

SpecAllowed == InitAllowed /\ [][NextAllowed]_vars

\* The marks of set whose type the node type allows, in the order of set.
AllowedOf(nodeMarks, set) ==
  SelectSeq(set, LAMBDA mark : nodeMarks.null \/ mark.type \in nodeMarks.types)

(***************************************************************************)
(* C23: allowedMarks returns an array holding exactly the marks of M       *)
(* whose type the node type allows, in the order of M; the empty mark set  *)
(* when it allows none of them, and M itself when it allows all of them.   *)
(***************************************************************************)
C23_AllowedMarksFilters ==
  lastOp = "allowedMarks" =>
    /\ ~curResult.undefined
    /\ curResult.marks = AllowedOf(curArgs.markSet, markSet)
    /\ AllowedOf(curArgs.markSet, markSet) = Mark_none => curResult.marks = Mark_none
    /\ AllowedOf(curArgs.markSet, markSet) = markSet => curResult.same

\* Whenever allowedMarks returns an array, it is the array the claim
\* describes: the code and the claim part only where Mark.empty is read.
C23_ArrayResultsFilter ==
  lastOp = "allowedMarks" =>
    /\ curResult.undefined <=>
         (markSet # Mark_none /\ AllowedOf(curArgs.markSet, markSet) = Mark_none)
    /\ ~curResult.undefined =>
         /\ curResult.marks = AllowedOf(curArgs.markSet, markSet)
         /\ AllowedOf(curArgs.markSet, markSet) = markSet => curResult.same

(***************************************************************************)
(* SpecSlice: a document is drawn, slices are cut from it, and the         *)
(* methods of Slice and the JSON conversions are applied.                  *)
(***************************************************************************)
\* Node.contentMatchAt(index)
contentMatchAt(node, index) ==
  matchFragment(contentMatch(node.type), node.content, 0, index)

\* Node.canReplace(from, to, replacement), start and end at their defaults
canReplace(node, from, to, replacement) ==
  Bind(matchFragment(contentMatchAt(node, from), replacement, 0, childCount(replacement)),
       LAMBDA one :
         Bind(matchFragment(one, node.content, to, childCount(node.content)),
              LAMBDA two :
                /\ two # NullMatch
                /\ validEnd(two)
                /\ \A i \in 0..(childCount(replacement) - 1) :
                     allowsMarks(node.type, child(replacement, i).marks)))

\* null, where a fragment is optional
NullFragment == [null |-> TRUE, frag |-> Fragment_empty]

SomeFragment(frag) == [null |-> FALSE, frag |-> frag]

\* insertInto(content, dist, insert, parent).  The call for the child's
\* content passes three arguments, so parent is undefined in it (NullNode).
RECURSIVE insertInto(_, _, _, _)
insertInto(content, dist, insert, enclosing) ==
  Bind(findIndex(content, dist, 0 - 1), LAMBDA found :
    IF found.offset = dist \/ isText(maybeChild(content, found.index).type)
    THEN IF enclosing.type # NullNode.type
            /\ ~canReplace(enclosing, found.index, found.index, insert)
         THEN NullFragment
         ELSE SomeFragment(append(append(fragCut(content, 0, dist), insert),
                                  fragCutFrom(content, dist)))
    ELSE Bind(insertInto(child(content, found.index).content,
                         dist - found.offset - 1, insert, NullNode),
              LAMBDA inner :
                IF inner.null THEN NullFragment
                ELSE SomeFragment(replaceChild(content, found.index,
                                               copy(child(content, found.index), inner.frag)))))

\* Slice.insertAt(pos, fragment); null is [null |-> TRUE]
insertAt(slice, pos, fragment) ==
  Bind(insertInto(slice.content, pos + slice.openStart, fragment, NullNode),
       LAMBDA content :
         IF content.null THEN [err |-> "", null |-> TRUE, val |-> Slice_empty]
         ELSE [err |-> "", null |-> FALSE,
               val |-> Slice(content.frag, slice.openStart, slice.openEnd)])

\* The fragments given to insertAt.
InsertFragments ==
  { Fragment_fromNode(TextNode(<<120>>, Mark_none)),
    Fragment_fromNode(Image),
    Fragment_fromNode(Paragraph(Fragment_fromNode(TextNode(<<120>>, Mark_none)))) }

\* doc.slice(from, to).insertAt(pos, fragment)
SliceInsertAt(from, to, pos, fragment) ==
  \E slice \in {nodeSlice(curDoc, from, to, FALSE)} :
    /\ pos <= sliceSize(slice)
    /\ DocCall("insertAt", [from |-> pos, to |-> pos, slice |-> slice, insert |-> fragment],
               insertAt(slice, pos, fragment))

\* Fragment.toJSON; null is <<>>
Fragment_toJSON(frag) ==
  [i \in 1..Len(frag.content) |-> nodeToJSON(frag.content[i])]

\* null, where the JSON of a slice is optional
NullJSON == [null |-> TRUE]

\* Slice.toJSON: null for a slice without content, and the open depths
\* only when they are above 0.
sliceToJSON(slice) ==
  IF slice.content.size = 0 THEN NullJSON
  ELSE [null |-> FALSE,
        content |-> Fragment_toJSON(slice.content),
        openStart |-> IF slice.openStart > 0 THEN slice.openStart ELSE JSONAbsent,
        openEnd |-> IF slice.openEnd > 0 THEN slice.openEnd ELSE JSONAbsent]

\* Slice.fromJSON
Slice_fromJSON(json) ==
  IF json.null THEN Slice_empty
  ELSE Slice(Fragment_fromJSON(json.content),
             IF json.openStart = JSONAbsent THEN 0 ELSE json.openStart,
             IF json.openEnd = JSONAbsent THEN 0 ELSE json.openEnd)

\* Slice.eq
sliceEq(slice, other) ==
  /\ fragEq(slice.content, other.content)
  /\ slice.openStart = other.openStart
  /\ slice.openEnd = other.openEnd

\* A value is written to JSON and read back.
JSONCall(op, value, json, back) ==
  DocCall(op, [from |-> 0, to |-> 0, slice |-> Slice_empty, value |-> value],
          [err |-> "", json |-> json, val |-> back])

\* Node.fromJSON(schema, doc.toJSON())
NodeJSON ==
  \E json \in {nodeToJSON(curDoc)} :
    JSONCall("nodeJSON", curDoc, json, nodeFromJSON(json))

\* Fragment.fromJSON(schema, fragment.toJSON())
FragmentJSON(fragment) ==
  \E json \in {Fragment_toJSON(fragment)} :
    JSONCall("fragmentJSON", fragment, json, Fragment_fromJSON(json))

\* Mark.fromJSON(schema, mark.toJSON())
MarkJSON(mark) ==
  \E json \in {markToJSON(mark)} :
    JSONCall("markJSON", mark, json, markFromJSON(json))

\* Slice.fromJSON(schema, doc.slice(from, to).toJSON())
SliceJSON(from, to) ==
  \E slice \in {nodeSlice(curDoc, from, to, FALSE)} :
    \E json \in {sliceToJSON(slice)} :
      JSONCall("sliceJSON", slice, json, Slice_fromJSON(json))

NextSlice ==
  \/ Idle /\ \E from \in 0..curDoc.content.size : \E to \in from..curDoc.content.size :
       \E pos \in 0..MaxDocSize : \E fragment \in InsertFragments :
         SliceInsertAt(from, to, pos, fragment)
  \/ Idle /\ NodeJSON
  \/ Idle /\ \E fragment \in MarkedInlinePool \cup {curDoc.content} : FragmentJSON(fragment)
  \/ Idle /\ \E mark \in Marks : MarkJSON(mark)
  \/ Idle /\ \E from \in 0..curDoc.content.size : \E to \in from..curDoc.content.size :
       SliceJSON(from, to)
  \/ DocReturn

SpecSlice == Init /\ [][NextSlice]_vars

\* The node of the slice's content that encloses position dist, and the
\* child index of dist in it; NullNode (of the enclosing field) when dist is
\* between the top nodes of the content.
RECURSIVE EnclosingAt(_, _, _)
EnclosingAt(content, dist, enclosing) ==
  Bind(findIndex(content, dist, 0 - 1), LAMBDA found :
    IF found.offset = dist \/ isText(maybeChild(content, found.index).type)
    THEN [enclosing |-> enclosing, index |-> found.index]
    ELSE EnclosingAt(child(content, found.index).content, dist - found.offset - 1,
                     child(content, found.index)))

\* Inserting the fragment at pos of the slice violates the content match of
\* the node that encloses the position.
InsertViolates(slice, pos, fragment) ==
  Bind(EnclosingAt(slice.content, pos + slice.openStart, NullNode), LAMBDA at :
    /\ at.enclosing.type # NullNode.type
    /\ ~canReplace(at.enclosing, at.index, at.index, fragment))

(***************************************************************************)
(* C22: insertAt returns null whenever inserting the fragment at the       *)
(* position would violate the content match of the node that encloses the  *)
(* position inside the slice; otherwise it returns a slice with the        *)
(* fragment inserted at pos + openStart and the open depths of the slice.  *)
(***************************************************************************)
C22_InsertAtNullOnViolation ==
  lastOp = "insertAt" =>
    IF InsertViolates(curArgs.slice, curArgs.from, curArgs.insert)
    THEN curResult.null
    ELSE /\ ~curResult.null
         /\ curResult.val.openStart = curArgs.slice.openStart
         /\ curResult.val.openEnd = curArgs.slice.openEnd
         /\ curResult.val.content.size = curArgs.slice.content.size + curArgs.insert.size
         /\ fragEq(fragCut(curResult.val.content, 0, curArgs.from + curArgs.slice.openStart),
                   fragCut(curArgs.slice.content, 0, curArgs.from + curArgs.slice.openStart))

\* What the code does: it never returns null for a position of the slice,
\* and the slice it returns has the size and the open depths of the claim.
C22_InsertAtNeverNull ==
  lastOp = "insertAt" =>
    /\ ~curResult.null
    /\ curResult.val.openStart = curArgs.slice.openStart
    /\ curResult.val.openEnd = curArgs.slice.openEnd
    /\ curResult.val.content.size = curArgs.slice.content.size + curArgs.insert.size

\* A paragraph was inserted into an open paragraph of the slice.
C22_ViolationReturned ==
  /\ lastOp = "insertAt"
  /\ InsertViolates(curArgs.slice, curArgs.from, curArgs.insert)
  /\ ~curResult.null

(***************************************************************************)
(* C21: a document, a fragment, a mark and a slice that are written with   *)
(* toJSON and read back with fromJSON are eq to what they were.            *)
(***************************************************************************)
C21_JSONRoundTrip ==
  /\ lastOp = "nodeJSON" => nodeEq(curResult.val, curArgs.value)
  /\ lastOp = "fragmentJSON" => fragEq(curResult.val, curArgs.value)
  /\ lastOp = "markJSON" => MarkEq(curResult.val, curArgs.value)
  /\ lastOp = "sliceJSON" => sliceEq(curResult.val, curArgs.value)

\* A slice that is open on both sides, deeper at its end, was written with
\* a node that has content and no marks, and read back.
C21_Witness ==
  /\ lastOp = "sliceJSON"
  /\ curArgs.value.openStart > 0
  /\ curArgs.value.openEnd > curArgs.value.openStart
  /\ \E i \in 1..Len(curResult.json.content) :
       /\ curResult.json.content[i].marks = <<>>
       /\ curResult.json.content[i].content # <<>>
  /\ sliceEq(curResult.val, curArgs.value)

(***************************************************************************)
(* The joins of a replace, read off its arguments: the depth at which      *)
(* replaceOuter stops descending, the positions in the slice, and the      *)
(* pairs of nodes that meet below that depth.                              *)
(***************************************************************************)
\* The depth at which replaceOuter leaves its first branch.
RECURSIVE OuterDepth(_, _, _, _)
OuterDepth(Sfrom, Sto, slice, depth) ==
  IF posIndex(Sfrom, depth) = posIndex(Sto, depth) /\ depth < Sfrom.depth - slice.openStart
  THEN OuterDepth(Sfrom, Sto, slice, depth + 1)
  ELSE depth

\* The replace in progress, with the positions it works on.  flat is the
\* branch of replaceOuter that joins nothing.
Joins ==
  LET Sfrom == resolve(curDoc, curArgs.from)
      Sto == resolve(curDoc, curArgs.to)
      slice == curArgs.slice
      outer == OuterDepth(Sfrom, Sto, slice, 0)
      empty == slice.content.size = 0
      flat == ~empty /\ slice.openStart = 0 /\ slice.openEnd = 0
                /\ Sfrom.depth = outer /\ Sto.depth = outer
      prepared == IF empty \/ flat THEN [start |-> Sto, end |-> Sfrom]
                  ELSE prepareSliceForReplace(slice, Sfrom)
  IN  [Sfrom |-> Sfrom, Sto |-> Sto, Sstart |-> prepared.start, Send |-> prepared.end,
       outer |-> outer, empty |-> empty, none |-> flat]

\* The call in progress is a replace that got past the checks of the open
\* depths.
ReplaceJoining ==
  /\ lastOp = "replace"
  /\ curArgs.slice.openStart <= resolve(curDoc, curArgs.from).depth
  /\ resolve(curDoc, curArgs.from).depth - curArgs.slice.openStart
       = resolve(curDoc, curArgs.to).depth - curArgs.slice.openEnd

\* The depths at which the node on the $from side meets the open start of
\* the slice (or, for an empty slice, the node on the $to side).
LeftDepths(j) == IF j.none THEN {} ELSE (j.outer + 1)..j.Sfrom.depth

\* The depths at which the open end of the slice meets the node on the $to
\* side.
RightDepths(j) == IF j.none \/ j.empty THEN {} ELSE (j.outer + 1)..j.Sto.depth

\* At depth d the open start and the open end of the slice are one node,
\* which is joined with both sides.
OneNodeAt(j, d) ==
  /\ d \in LeftDepths(j) \cap RightDepths(j)
  /\ \A k \in j.outer..(d - 1) : posIndex(j.Sstart, k) = posIndex(j.Send, k)

\* The pairs <<main, sub>> that checkJoin is given, should the replace get
\* as far as each of them.
JoinedPairs(j) ==
  {<<posNode(j.Sfrom, d), posNode(j.Sstart, d)>> : d \in LeftDepths(j)} \cup
  {<<posNode(j.Send, d), posNode(j.Sto, d)>> : d \in RightDepths(j)} \cup
  {<<posNode(j.Sfrom, d), posNode(j.Send, d)>> : d \in {k \in LeftDepths(j) : OneNodeAt(j, k)}}

CannotJoinOf(pairs) ==
  {CannotJoin(pair[1], pair[2]).err :
     pair \in {q \in pairs : ~compatibleContent(q[2].type, q[1].type)}}

\* The replace raises Cannot join exactly when a pair of nodes that meet is
\* not compatible, and names such a pair.
JoinsChecked(j) ==
  IF CannotJoinOf(JoinedPairs(j)) # {}
  THEN curResult.err \in CannotJoinOf(JoinedPairs(j))
  ELSE curResult.err \in {"", "Invalid content for node doc",
                          "Invalid content for node blockquote",
                          "Invalid content for node paragraph",
                          "Invalid content for node heading"}

\* The node of the result at depth d around position pos has the type and
\* the marks of node.
KeptAt(pos, d, node) ==
  Bind(resolve(curResult.val, pos), LAMBDA at :
    /\ at.depth >= d
    /\ posNode(at, d).type = node.type
    /\ sameSet(posNode(at, d).marks, node.marks))

\* The position of the result that follows what was inserted.
EndOfInserted == curResult.val.content.size - (curDoc.content.size - curArgs.to)

(***************************************************************************)
(* C25: a replace raises ReplaceError when two nodes that it joins (the    *)
(* $from side with the open start of the slice, the open end of the slice  *)
(* with the $to side, or the two sides for an empty slice) are neither of  *)
(* one type nor of compatible content; a join that succeeds keeps the      *)
(* type and the marks of its left-hand node.                               *)
(***************************************************************************)
C25_JoinKeepsLeft ==
  ReplaceJoining =>
    Bind(Joins, LAMBDA j :
      /\ JoinsChecked(j)
      /\ curResult.err = "" =>
           /\ \A d \in LeftDepths(j) : KeptAt(curArgs.from, d, posNode(j.Sfrom, d))
           /\ \A d \in RightDepths(j) : KeptAt(EndOfInserted, d, posNode(j.Send, d)))

\* C25, amended: where the open start and the open end of the slice are one
\* node, that node is joined with both sides into one node, which keeps
\* the type and the marks of the node on the $from side.
C25_JoinKeepsLeftmost ==
  ReplaceJoining =>
    Bind(Joins, LAMBDA j :
      /\ JoinsChecked(j)
      /\ curResult.err = "" =>
           /\ \A d \in LeftDepths(j) : KeptAt(curArgs.from, d, posNode(j.Sfrom, d))
           /\ \A d \in RightDepths(j) :
                KeptAt(EndOfInserted, d,
                       IF OneNodeAt(j, d) THEN posNode(j.Sfrom, d) ELSE posNode(j.Send, d)))

\* A slice of two headings, open on both sides, was put into a paragraph:
\* the paragraph took the content of the first heading, and the second
\* heading took the rest of the paragraph.
C25_Witness ==
  /\ ReplaceJoining
  /\ curResult.err = ""
  /\ Bind(Joins, LAMBDA j :
       /\ LeftDepths(j) # {}
       /\ \E d \in RightDepths(j) :
            /\ ~OneNodeAt(j, d)
            /\ posNode(j.Send, d).type = "heading"
            /\ posNode(j.Sto, d).type = "paragraph"
            /\ KeptAt(EndOfInserted, d, posNode(j.Send, d))
            /\ KeptAt(curArgs.from, d, posNode(j.Sto, d)))

====
